---- MODULE Spec2Model ----
(***************************************************************************)
(* A model of the synchronisation core of XTF (Excel To Feishu):           *)
(*   - the reconciliation engine of core/engine.py (the four bitable sync  *)
(*     policies and the entry of the sheet policies), with the index       *)
(*     hashing of core/converter.py;                                       *)
(*   - the batched dispatch of XTFSyncEngine.process_in_batches;           *)
(*   - the sheet transport of api/sheet.py and api/sheet_optimized.py      *)
(*     (chunking and auto-split).                                          *)
(*                                                                         *)
(* Specifications:                                                         *)
(*   Spec          one or more sync runs of the engine against a remote    *)
(*                 record store;                                           *)
(*   SpecTransport one send: process_in_batches over a long item list, or  *)
(*                 append_sheet_data / the chunked upload of sync_data     *)
(*                 over a value matrix.                                    *)
(***************************************************************************)
EXTENDS Integers, Sequences, FiniteSets, TLC

VARIABLES
    \* ---- configuration and input of a sync run (XTFSyncEngine.config, df)
    target_type,      \* "bitable" | "sheet"
    sync_mode,        \* "full" | "incremental" | "overwrite" | "clone"
    index_column,     \* "ID" when an index column is configured, NoColumn otherwise
    field_type,       \* Feishu type of the index column: 1 (text) or 2 (number)
    batch_size,       \* config.batch_size
    df,               \* the local rows: Seq(value of the index cell, Absent
                      \* when the data has no such column)
    create_missing_fields,   \* config.create_missing_fields
    \* ---- the remote store
    fields,           \* [missing, calls, success, types]: the columns of df
                      \* the remote table lacks, the field requests of this
                      \* run, whether ensure_fields_exist returned True, and
                      \* what get_field_types returned to the policy
    remote,           \* Seq([record_id, f]), f the value of the index field
    next_id,          \* the next record_id the remote assigns
    faults,           \* number of record requests (read, create, update,
                      \* delete) the remote has answered with failure
    \* ---- state of the running sync
    pc,               \* position of the engine
    existing_index,   \* the RemoteIndex: IndexKey -> record
    toCreate,         \* records_to_create / new_records
    toUpdate,         \* records_to_update
    toDelete,         \* record_ids_to_delete / existing_record_ids
    sends,            \* the process_in_batches calls still to make
    cur,              \* offset i of the running process_in_batches loop
    success_count,    \* success_count of the running process_in_batches
    results,          \* [update, create, delete : BOOLEAN] phase results
    calls,            \* every record request of the policy of this run, in order
    result,           \* the value sync returned
    run,              \* number of the current run
    history,          \* the plan and result of every finished run
    \* ---- state of one send of the transport
    tp,
    \* ---- state of one call of the API client (BitableAPI, RetryableAPIClient)
    net

vars == <<target_type, sync_mode, index_column, field_type, batch_size, df,
          create_missing_fields, fields, remote, next_id, faults, pc, existing_index, toCreate, toUpdate,
          toDelete, sends, cur, success_count, results, calls, result, run,
          history, tp, net>>

\* the variables of the engine and of the transport
engine_vars == <<target_type, sync_mode, index_column, field_type, batch_size, df,
                 create_missing_fields, fields, remote, next_id, faults, pc, existing_index, toCreate, toUpdate,
                 toDelete, sends, cur, success_count, results, calls, result, run,
                 history, tp>>

config == <<target_type, sync_mode, index_column, field_type, batch_size, df,
            create_missing_fields>>

-----------------------------------------------------------------------------
(* Bounds of the model.                                                    *)

MaxLocal == 2       \* local rows of a generated data set
MaxRemote == 2      \* remote records before the first run
MaxFaults == 1      \* failed record requests per behaviour
MaxRuns == 2        \* sync runs per behaviour
MaxBatch == 2       \* largest configured batch_size of a sync run
MaxMissingFields == 1   \* columns of df the remote table lacks, the index column
                        \* first

-----------------------------------------------------------------------------
(* Values.  A cell or field value is a record [t, s]: t is the Python type *)
(* of the value and s its text.                                            *)

NoColumn == "None"
None == "None"

StrV(x) == [t |-> "str", s |-> x]
IntV(x) == [t |-> "int", s |-> x]
NaN == [t |-> "nan", s |-> "nan"]
Rich(x) == [t |-> "rich", s |-> x]
BoolV(b) == [t |-> "bool", s |-> IF b THEN "True" ELSE "False"]
Absent == [t |-> "absent", s |-> ""]

\* str(value) of Python
PyStr(v) ==
    CASE v.t = "str" -> v.s
      [] v.t = "int" -> v.s
      [] v.t = "bool" -> v.s
      [] v.t = "nan" -> "nan"
      [] v.t = "rich" -> "[{'text': '" \o v.s \o "', 'type': 'text'}]"

\* hashlib.md5(text.encode('utf-8')).hexdigest(), tabulated on the texts
\* the model can produce
Md5Table ==
    [x \in {"a", "b", "nan", "0", "1", "2", "3", "4", "5", "True", "False",
            "[{'text': 'a', 'type': 'text'}]",
            "[{'text': 'b', 'type': 'text'}]"} |->
        CASE x = "a" -> "0cc175b9c0f1b6a831c399e269772661"
          [] x = "b" -> "92eb5ffee6ae2fec3ad71c777531578f"
          [] x = "nan" -> "a3d2de7675556553a5f08e4c88d2c228"
          [] x = "0" -> "cfcd208495d565ef66e7dff9f98764da"
          [] x = "True" -> "f827cf462f62848df37c5e1e94a4da74"
          [] x = "False" -> "f8320b26d30ab433c5a54546d21f414c"
          [] x = "1" -> "c4ca4238a0b923820dcc509a6f75849b"
          [] x = "2" -> "c81e728d9d4c2f636f067f89cc14862c"
          [] x = "3" -> "eccbc87e4b5ce2fe28308fd9f2a7baf3"
          [] x = "4" -> "a87ff679a2f3e71d9181a67b7542122c"
          [] x = "5" -> "e4da3b7fbbce2345d7772b0674a318d5"
          [] x = "[{'text': 'a', 'type': 'text'}]" -> "5845a8c7a5158c6ce9f485eb866eba53"
          [] x = "[{'text': 'b', 'type': 'text'}]" -> "e3ae498f930df5dc580bf5747c28fbe5"]

Md5(x) == Md5Table[x]

\* truth value of an Optional[str]
Truthy(h) == h # None /\ h # ""

\* DataConverter.get_index_value_hash(row, index_column); v is the cell
\* row[index_column], Absent when the row has no such column
get_index_value_hash(v, col) ==
    IF col # NoColumn /\ v # Absent THEN Md5(PyStr(v)) ELSE None


\* DataConverter.build_record_index(records, index_column): a later record
\* overwrites an earlier one under the same key
RECURSIVE build_index_upto(_, _, _)
build_index_upto(records, col, n) ==
    IF n = 0 THEN <<>>
    ELSE LET index == build_index_upto(records, col, n - 1)
             record == records[n]
         IN IF record.f # Absent
            THEN (Md5(PyStr(record.f)) :> record) @@ index
            ELSE index

\* an index that is never filled
build_record_index_mut(records, col) == <<>>

\* an index that keeps the first record of a key
build_record_index_first(records, col) ==
    IF col = NoColumn THEN <<>>
    ELSE LET keyed == {k \in 1..Len(records) : records[k].f # Absent}
         IN [h \in {Md5(PyStr(records[k].f)) : k \in keyed} |->
               records[CHOOSE k \in keyed :
                          /\ Md5(PyStr(records[k].f)) = h
                          /\ \A j \in keyed : j < k => Md5(PyStr(records[j].f)) # h]]

build_record_index(records, col) ==
    IF col = NoColumn THEN <<>> ELSE build_index_upto(records, col, Len(records))

\* texts int() accepts, among the texts of the model
NumericTexts == {"0", "1", "2", "3", "4", "5"}

\* DataConverter._force_to_number(value); Absent stands for a None result.
\* An int or a float, NaN included, is returned as it is, and so is a bool
\* (an int of Python); a text is parsed; any other value goes through
\* float(value), which a list fails
force_to_number(v) ==
    CASE v.t \in {"int", "nan", "bool"} -> v
      [] v.t = "str" -> IF v.s \in NumericTexts THEN IntV(v.s) ELSE Absent
      [] OTHER -> Absent

\* pd.isnull(value) of a scalar or of a one-element list
is_null(v) == v = Absent \/ v.t = "nan"

\* the field types a policy works with: Unread before get_field_types was
\* called, NoTypes for the empty mapping {} it returns when its list_fields
\* request fails, else the type of the one field of the model
Unread == -1
NoTypes == 0

\* value.strip().lower() on the texts of the model: none has white space, and
\* 'True' and 'False' are the only ones with a capital letter
strip_lower(text) ==
    CASE text = "True" -> "true"
      [] text = "False" -> "false"
      [] OTHER -> text

\* the words smart_convert_value reads as the bools True and False; each
\* list of the code has one more word, in Chinese, that no text of the
\* model spells
TrueWords == {"true", "yes", "1"}
FalseWords == {"false", "no", "0"}

\* DataConverter.smart_convert_value(value): a bool, an int or a float is
\* returned as it is; a text is stripped and lowered, read as True or False
\* when it is one of the listed words, else as the int it spells; any other
\* text, and any other value, becomes str(value).  No text of the model has
\* a '.' or ten digits
smart_convert_value(v) ==
    CASE v.t \in {"bool", "int", "nan"} -> v
      [] v.t = "str" ->
            LET str_val == strip_lower(v.s)
            IN IF str_val \in TrueWords THEN BoolV(TRUE)
               ELSE IF str_val \in FalseWords THEN BoolV(FALSE)
               ELSE IF str_val \in NumericTexts THEN IntV(str_val)
               ELSE StrV(PyStr(v))
      [] OTHER -> StrV(PyStr(v))

\* DataConverter.convert_field_value_safe(name, value, field_types) for a
\* field of type ftype, NoTypes when field_types does not hold the field;
\* Absent stands for a None result
convert_field_value_safe(v, ftype) ==
    IF is_null(v) THEN Absent
    ELSE IF ftype = NoTypes THEN smart_convert_value(v)
    ELSE IF ftype = 1 THEN StrV(PyStr(v)) ELSE force_to_number(v)

\* the `fields` entry a row contributes for its index cell: null cells and
\* cells converted to None are left out of the record
record_field(v, ftype) ==
    IF v = Absent \/ v.t = "nan" THEN Absent ELSE convert_field_value_safe(v, ftype)

\* DataConverter.df_to_records(df, field_types); src is the position of the
\* source row, record_id 0 means the record carries no record_id
df_to_records(d, ftype) ==
    [i \in 1..Len(d) |-> [src |-> i, f |-> record_field(d[i], ftype), record_id |-> 0]]

Positions(n) == [i \in 1..n |-> i]

\* a classification test that never finds a row in the index
is_matched_mut(index_hash, index) == FALSE

\* the test of the classification loops: `index_hash and index_hash in existing_index`
is_matched(index_hash, index) ==
    Truthy(index_hash) /\ index_hash \in DOMAIN index

\* a classification that also creates the rows it updates
full_plan_mut(d, col, ftype, index) ==
    LET h(i) == get_index_value_hash(d[i], col)
        upd == SelectSeq(Positions(Len(d)), LAMBDA i : is_matched(h(i), index))
    IN [update |-> [k \in 1..Len(upd) |->
                      [src |-> upd[k], f |-> record_field(d[upd[k]], ftype),
                       record_id |-> index[h(upd[k])].record_id]],
        create |-> df_to_records(d, ftype),
        delete |-> <<>>]

\* a classification whose index gives a key away once: only the first row of
\* a key is matched, later rows of the same key are created
full_plan_consuming(d, col, ftype, index) ==
    LET h(i) == get_index_value_hash(d[i], col)
        first(i) == \A j \in 1..(i - 1) : h(j) # h(i)
        upd == SelectSeq(Positions(Len(d)),
                         LAMBDA i : is_matched(h(i), index) /\ first(i))
        new == SelectSeq(Positions(Len(d)),
                         LAMBDA i : ~(is_matched(h(i), index) /\ first(i)))
    IN [update |-> [k \in 1..Len(upd) |->
                      [src |-> upd[k], f |-> record_field(d[upd[k]], ftype),
                       record_id |-> index[h(upd[k])].record_id]],
        create |-> [k \in 1..Len(new) |->
                      [src |-> new[k], f |-> record_field(d[new[k]], ftype),
                       record_id |-> 0]],
        delete |-> <<>>]

\* the classification loop of _sync_full_bitable
full_plan(d, col, ftype, index) ==
    LET h(i) == get_index_value_hash(d[i], col)
        upd == SelectSeq(Positions(Len(d)), LAMBDA i : is_matched(h(i), index))
        new == SelectSeq(Positions(Len(d)), LAMBDA i : ~is_matched(h(i), index))
    IN [update |-> [k \in 1..Len(upd) |->
                      [src |-> upd[k], f |-> record_field(d[upd[k]], ftype),
                       record_id |-> index[h(upd[k])].record_id]],
        create |-> [k \in 1..Len(new) |->
                      [src |-> new[k], f |-> record_field(d[new[k]], ftype),
                       record_id |-> 0]],
        delete |-> <<>>]

\* a selection that keeps every row
incremental_plan_mut(d, col, ftype, index) ==
    [update |-> <<>>, create |-> df_to_records(d, ftype), delete |-> <<>>]

\* the selection loop of _sync_incremental_bitable
incremental_plan(d, col, ftype, index) ==
    LET h(i) == get_index_value_hash(d[i], col)
        new == SelectSeq(Positions(Len(d)), LAMBDA i : ~is_matched(h(i), index))
    IN [update |-> <<>>,
        create |-> [k \in 1..Len(new) |->
                      [src |-> new[k], f |-> record_field(d[new[k]], ftype),
                       record_id |-> 0]],
        delete |-> <<>>]

\* a deletion loop that deletes a record once, however many rows match it
overwrite_plan_mut(d, col, ftype, index) ==
    LET h(i) == get_index_value_hash(d[i], col)
        del == SelectSeq(Positions(Len(d)),
                         LAMBDA i : /\ is_matched(h(i), index)
                                    /\ \A j \in 1..(i - 1) : h(j) # h(i))
    IN [update |-> <<>>,
        create |-> [k \in 1..Len(del) |->
                      [src |-> del[k], f |-> record_field(d[del[k]], ftype),
                       record_id |-> 0]],
        delete |-> [k \in 1..Len(del) |-> index[h(del[k])].record_id]]

\* the deletion loop of _sync_overwrite_bitable, then df_to_records
overwrite_plan(d, col, ftype, index) ==
    LET h(i) == get_index_value_hash(d[i], col)
        del == SelectSeq(Positions(Len(d)), LAMBDA i : is_matched(h(i), index))
    IN [update |-> <<>>,
        create |-> df_to_records(d, ftype),
        delete |-> [k \in 1..Len(del) |-> index[h(del[k])].record_id]]

\* a clone that leaves the first remote record in place
clone_plan_mut(d, ftype, records) ==
    [update |-> <<>>,
     create |-> df_to_records(d, ftype),
     delete |-> [k \in 1..(Len(records) - 1) |-> records[k + 1].record_id]]

\* _sync_clone_bitable: every record id read, then df_to_records
clone_plan(d, ftype, records) ==
    [update |-> <<>>,
     create |-> df_to_records(d, ftype),
     delete |-> [k \in 1..Len(records) |-> records[k].record_id]]

\* pure append of _sync_full_bitable / _sync_incremental_bitable when no
\* index column is configured
append_plan(d, ftype) ==
    [update |-> <<>>, create |-> df_to_records(d, ftype), delete |-> <<>>]

-----------------------------------------------------------------------------
(* Batched dispatch: XTFSyncEngine.process_in_batches.                     *)

MAX_BATCH_CREATE_SIZE == 1000
MAX_BATCH_UPDATE_SIZE == 1000
MAX_BATCH_DELETE_SIZE == 500

\* XTFSyncEngine._get_operation_max_batch_size; 0 stands for None
get_operation_max_batch_size(op) ==
    CASE op = "create" -> MAX_BATCH_CREATE_SIZE
      [] op = "update" -> MAX_BATCH_UPDATE_SIZE
      [] op = "delete" -> MAX_BATCH_DELETE_SIZE
      [] OTHER -> 0

\* a batch size that ignores the limit of the operation
effective_batch_size_mut(bs, op) == bs

\* effective_batch_size of process_in_batches
effective_batch_size(bs, op) ==
    LET max_batch_size == get_operation_max_batch_size(op)
    IN IF max_batch_size # 0 /\ bs > max_batch_size THEN max_batch_size ELSE bs

\* a batch count that forgets the last, partial batch
total_batches_mut(n, eff) == n \div eff

\* total_batches of process_in_batches
total_batches(n, eff) == (n + eff - 1) \div eff

Min(a, b) == IF a <= b THEN a ELSE b

\* batch = items[i : i + effective_batch_size]
batch_at(items, i, eff) == SubSeq(items, i + 1, Min(i + eff, Len(items)))

-----------------------------------------------------------------------------
(* The remote record store behind batch_create / batch_update /            *)
(* batch_delete: a successful call is applied as a whole.                  *)

\* every item of the batch overwrites the field of its record; of several
\* items for one record the last is the one that stays
apply_update(records, batch) ==
    [k \in 1..Len(records) |->
        LET hits == {j \in 1..Len(batch) :
                        batch[j].record_id = records[k].record_id /\ batch[j].f # Absent}
        IN IF hits = {} THEN records[k]
           ELSE [records[k] EXCEPT
                    !.f = batch[CHOOSE j \in hits : \A i \in hits : i <= j].f]]

apply_create(records, batch, nid) ==
    records \o [k \in 1..Len(batch) |-> [record_id |-> nid + k - 1, f |-> batch[k].f]]

apply_delete(records, ids) ==
    LET deleted == {ids[k] : k \in 1..Len(ids)}
    IN SelectSeq(records, LAMBDA r : r.record_id \notin deleted)

apply_call(records, op, batch, nid) ==
    CASE op = "create" -> apply_create(records, batch, nid)
      [] op = "update" -> apply_update(records, batch)
      [] op = "delete" -> apply_delete(records, batch)

-----------------------------------------------------------------------------
(* The sync engine.                                                        *)

NoTransport == [kind |-> "none"]
NoCall == [fn |-> "none"]

\* no field request: the target is a sheet, for which ensure_fields_exist and
\* get_field_types return at once, or no sync is running
NoFields == [missing |-> 0, calls |-> <<>>, success |-> TRUE, types |-> Unread]

LocalValues == {StrV("a"), StrV("b"), NaN}
RemoteValues == {StrV("a"), Rich("a"), StrV("nan")}

SeqsUpTo(S, n) == UNION {[1..k -> S] : k \in 0..n}

\* the local data sets: every row has the index cell, or none has
LocalData ==
    SeqsUpTo(LocalValues, MaxLocal) \cup {[i \in 1..k |-> Absent] : k \in 1..MaxLocal}

RemoteData ==
    {[i \in 1..Len(fs) |-> [record_id |-> i, f |-> fs[i]]] :
        fs \in SeqsUpTo(RemoteValues, MaxRemote)}

\* the records of a table that has no field for the index column
UnkeyedRemoteData ==
    {[i \in 1..k |-> [record_id |-> i, f |-> Absent]] : k \in 0..MaxRemote}

\* the two scenarios of the specification: index values 1..5 against remote
\* records for 1 and 3; 7 local rows against 10 remote records
ScenarioData ==
    {[local |-> <<IntV("1"), IntV("2"), IntV("3"), IntV("4"), IntV("5")>>,
      remote |-> <<[record_id |-> 1, f |-> StrV("1")], [record_id |-> 2, f |-> StrV("3")]>>],
     [local |-> [i \in 1..7 |-> StrV("a")],
      remote |-> [i \in 1..10 |-> [record_id |-> i, f |-> StrV("a")]]]}

InputData ==
    {[local |-> l, remote |-> r] : l \in LocalData, r \in RemoteData} \cup ScenarioData

IdlePlan ==
    /\ existing_index = <<>>
    /\ toCreate = <<>>
    /\ toUpdate = <<>>
    /\ toDelete = <<>>
    /\ sends = <<>>
    /\ cur = 0
    /\ success_count = 0
    /\ results = [update |-> TRUE, create |-> TRUE, delete |-> TRUE]
    /\ calls = <<>>
    /\ result = FALSE

Init ==
    /\ target_type \in {"bitable", "sheet"}
    /\ sync_mode \in {"full", "incremental", "overwrite", "clone"}
    /\ index_column \in {NoColumn, "ID"}
    /\ field_type \in {1, 2}
    /\ batch_size \in {1, MaxBatch}
    /\ create_missing_fields \in BOOLEAN
    /\ target_type = "sheet" => create_missing_fields
    \* the columns of df the table has no field for; a sheet has no fields
    /\ \E missing \in 0..MaxMissingFields :
          /\ target_type = "sheet" => missing = 0
          /\ fields = [missing |-> missing, calls |-> <<>>, success |-> FALSE,
                       types |-> Unread]
    \* the records of a table without the field do not carry it
    /\ \E data \in InputData, unkeyed \in UnkeyedRemoteData :
          /\ df = data.local
          /\ remote = IF fields.missing = 0 THEN data.remote ELSE unkeyed
          /\ next_id = Len(remote) + 1
    \* the sheet policies are modelled where they do not read the sheet
    /\ target_type = "sheet" => (index_column = NoColumn \/ sync_mode = "clone")
    /\ target_type = "sheet" => (remote = <<>> /\ field_type = 1)
    \* the field type matters to the index column only
    /\ index_column = NoColumn => field_type = 1
    /\ faults = 0
    /\ pc = "idle"
    /\ IdlePlan
    /\ run = 1
    /\ history = <<>>
    /\ tp = NoTransport
    /\ net = NoCall

\* the plan of the configured policy against the records read, its records
\* converted under the field types ftype
plan_of(records, ftype) ==
    LET index == build_record_index(records, index_column)
    IN CASE sync_mode = "clone" -> clone_plan(df, ftype, records)
         [] sync_mode = "overwrite" -> overwrite_plan(df, index_column, ftype, index)
         [] index_column = NoColumn -> append_plan(df, ftype)
         [] sync_mode = "full" -> full_plan(df, index_column, ftype, index)
         [] sync_mode = "incremental" -> incremental_plan(df, index_column, ftype, index)

\* a policy that sends its creates first
sends_of_create_first(plan) ==
    LET part(op, items, always) ==
            IF always \/ items # <<>> THEN <<[op |-> op, items |-> items]>> ELSE <<>>
    IN part("create", plan.create,
            sync_mode \in {"overwrite", "clone"} \/ index_column = NoColumn)
       \o part("delete", plan.delete, FALSE)
       \o part("update", plan.update, FALSE)

\* the process_in_batches calls a bitable policy makes, in order; updates
\* and deletes are sent only when their list is not empty, creates of
\* overwrite and clone always
sends_of(plan) ==
    LET part(op, items, always) ==
            IF always \/ items # <<>> THEN <<[op |-> op, items |-> items]>> ELSE <<>>
    IN part("delete", plan.delete, FALSE)
       \o part("update", plan.update, FALSE)
       \o part("create", plan.create,
               sync_mode \in {"overwrite", "clone"} \/ index_column = NoColumn)

\* an overwrite that goes on without an index column
overwrite_refused_mut(mode, column) == FALSE

\* the configuration check of sync_overwrite: `not self.config.index_column`
overwrite_refused(mode, column) == mode = "overwrite" /\ column = NoColumn

\* a field request of the run
field_call(op, ok) == [op |-> op, batch |-> <<>>, ok |-> ok]

\* the return of sync before a policy ran: False, nothing planned
SyncFailed ==
    /\ result' = FALSE
    /\ pc' = "done"
    /\ history' = Append(history, [create |-> <<>>, update |-> <<>>, delete |-> <<>>,
                                   result |-> FALSE])

\* ensure_fields_exist has columns to create: config.create_missing_fields
\* is set and df has columns the table lacks
must_create_fields == create_missing_fields /\ fields.missing > 0

\* the head of sync in bitable mode: ensure_fields_exist lists the fields of
\* the table.  When list_fields raises it returns False.  When it has
\* columns to create it asks
\* self.converter.analyze_excel_column_data_enhanced for the type of the
\* first of them, a method DataConverter does not have: the AttributeError is
\* caught by its own `except Exception` and it returns False before any
\* create_field.  With config.create_missing_fields = False it returns True
\* whatever columns the table lacks.  On False sync returns False before any
\* policy runs
EnsureFields ==
    /\ pc = "idle"
    /\ target_type = "bitable"
    /\ \/ /\ fields' = [fields EXCEPT !.calls = <<field_call("list_fields", FALSE)>>,
                                      !.success = FALSE]
          /\ SyncFailed
       \/ /\ fields' = [fields EXCEPT !.calls = <<field_call("list_fields", TRUE)>>,
                                      !.success = ~must_create_fields]
          /\ IF must_create_fields
             THEN SyncFailed
             ELSE pc' = "policy" /\ UNCHANGED <<result, history>>
    /\ UNCHANGED <<config, remote, next_id, faults, existing_index, toCreate, toUpdate,
                   toDelete, sends, cur, success_count, results, calls, run, tp>>
    /\ UNCHANGED net

\* sync is about to dispatch to the policy: after ensure_fields_exist in
\* bitable mode, at once in sheet mode
AtPolicy == pc = IF target_type = "bitable" THEN "policy" ELSE "idle"

\* sync_overwrite without an index column: refused before anything is read
SyncRefused ==
    /\ AtPolicy
    /\ overwrite_refused(sync_mode, index_column)
    /\ SyncFailed
    /\ UNCHANGED <<config, fields, remote, next_id, faults, existing_index, toCreate,
                   toUpdate, toDelete, sends, cur, success_count, results, calls,
                   run, tp>>
    /\ UNCHANGED net

\* what get_field_types returns for the index column: the type of its field
\* when list_fields was answered and the table has the field; nothing when
\* the table lacks the field (a column config.create_missing_fields = False
\* left uncreated), and nothing when the request failed: any failure is
\* caught and the empty mapping is returned
types_read(answered) ==
    IF answered /\ fields.missing = 0 THEN field_type ELSE NoTypes

\* XTFSyncEngine.get_field_types: a list_fields request of its own, answered
\* or not.  The policy goes on in either case; a column without a type is
\* converted by smart_convert_value.  The call is made once in a run
get_field_types(answered) ==
    fields' = [fields EXCEPT
                 !.calls = Append(@, field_call("list_fields", answered)),
                 !.types = types_read(answered)]

\* _sync_full_bitable, _sync_incremental_bitable, _sync_overwrite_bitable,
\* _sync_clone_bitable up to their first write: read all records, build the
\* index, read the field types (get_field_types), classify and convert the
\* rows.  _sync_clone_bitable calls get_field_types and df_to_records only
\* after its delete phase: with records to delete it starts that phase
\* first, its new_records still to be made.
\* get_all_records raises when a page of the read fails; no policy catches
\* it, so sync raises: no result, no write
StartBitable ==
    /\ pc = "policy"
    /\ target_type = "bitable"
    /\ ~overwrite_refused(sync_mode, index_column)
    /\ LET readsRemote == sync_mode = "clone" \/ index_column # NoColumn
           records == IF readsRemote THEN remote ELSE <<>>
           deletesFirst == sync_mode = "clone" /\ records # <<>>
       IN \/ /\ existing_index' =
                   IF sync_mode = "clone" THEN <<>>
                   ELSE build_record_index(records, index_column)
             /\ calls' = IF readsRemote
                         THEN <<[op |-> "read", batch |-> records, ok |-> TRUE]>>
                         ELSE <<>>
             /\ results' = [update |-> TRUE, delete |-> TRUE,
                            create |-> sync_mode \notin {"overwrite", "clone"}]
             /\ pc' = "dispatch"
             /\ IF deletesFirst
                THEN \* the delete list does not depend on the field types
                     LET plan == [plan_of(records, Unread) EXCEPT !.create = <<>>]
                     IN /\ toCreate' = plan.create
                        /\ toUpdate' = plan.update
                        /\ toDelete' = plan.delete
                        /\ sends' = sends_of(plan)
                        /\ UNCHANGED <<faults, fields>>
                ELSE \E answered \in BOOLEAN :
                        LET plan == plan_of(records, types_read(answered))
                        IN /\ get_field_types(answered)
                           /\ UNCHANGED faults
                           /\ toCreate' = plan.create
                           /\ toUpdate' = plan.update
                           /\ toDelete' = plan.delete
                           /\ sends' = sends_of(plan)
          \/ /\ readsRemote
             /\ faults < MaxFaults
             /\ faults' = faults + 1
             /\ calls' = <<[op |-> "read", batch |-> <<>>, ok |-> FALSE]>>
             /\ pc' = "raised"
             /\ UNCHANGED <<fields, existing_index, toCreate, toUpdate, toDelete,
                            sends, results>>
    /\ cur' = 0
    /\ success_count' = 0
    /\ UNCHANGED <<config, remote, next_id, result, run, history, tp>>
    /\ UNCHANGED net

\* the answers of the remote to one write request: accepted, rejected with
\* the oversized-payload code, or failed in any other way
WriteOutcomes == {"ok", "oversized", "other"}

\* what a batch processor does with its batch: it returns as the answer of
\* the remote lets it, or it raises
BatchOutcomes == WriteOutcomes \cup {"exception"}

\* a loop that a raising processor ends
after_batch_abort(i, eff, n, outcome) ==
    IF outcome = "exception" THEN n ELSE i + eff

\* the start of the next batch: the loop runs over range(0, len(items),
\* effective_batch_size), a False or an exception of the processor is logged
\* and the loop goes on
after_batch(i, eff, n, outcome) == i + eff

\* one iteration of the loop of process_in_batches: one batch is handed to
\* the processor (batch_create_records, batch_update_records or
\* batch_delete_records), which returns True only for an accepted request and
\* False for every rejection, whatever its code; an exception it raises is
\* caught
ProcessBatch ==
    /\ pc = "dispatch"
    /\ sends # <<>>
    /\ cur < Len(Head(sends).items)
    /\ LET op == Head(sends).op
           eff == effective_batch_size(batch_size, op)
           batch == batch_at(Head(sends).items, cur, eff)
       IN \E outcome \in BatchOutcomes :
          LET ok == (outcome = "ok")
          IN /\ ~ok => faults < MaxFaults
             /\ faults' = IF ok THEN faults ELSE faults + 1
             /\ calls' = Append(calls, [op |-> op, batch |-> batch, ok |-> ok,
                                        outcome |-> outcome])
             /\ remote' = IF ok THEN apply_call(remote, op, batch, next_id) ELSE remote
             /\ next_id' = IF ok /\ op = "create" THEN next_id + Len(batch) ELSE next_id
             /\ success_count' = IF ok THEN success_count + 1 ELSE success_count
             /\ cur' = after_batch(cur, eff, Len(Head(sends).items), outcome)
    /\ UNCHANGED <<config, fields, pc, existing_index, toCreate, toUpdate, toDelete,
                   sends, results, result, run, history, tp>>
    /\ UNCHANGED net

\* a policy that gives up after a failed phase
phases_left_stop(phases, phase_ok) == IF phase_ok THEN Tail(phases) ELSE <<>>

\* the phases a policy still dispatches after one returned: the result of a
\* phase is kept for the return value only, the next phase is not guarded
\* by it
phases_left(phases, phase_ok) == Tail(phases)

\* the return of process_in_batches: success_count == total_batches.  After
\* its delete phase _sync_clone_bitable calls get_field_types and makes its
\* new_records with df_to_records
FinishSend ==
    /\ pc = "dispatch"
    /\ sends # <<>>
    /\ cur >= Len(Head(sends).items)
    /\ LET op == Head(sends).op
           eff == effective_batch_size(batch_size, op)
           phase_ok == success_count = total_batches(Len(Head(sends).items), eff)
       IN /\ results' = [results EXCEPT ![op] = phase_ok]
          /\ IF sync_mode = "clone" /\ op = "delete"
             THEN \E answered \in BOOLEAN :
                     LET new_records == df_to_records(df, types_read(answered))
                         prepared == [k \in 1..Len(sends) |->
                                         IF sends[k].op = "create"
                                         THEN [sends[k] EXCEPT !.items = new_records]
                                         ELSE sends[k]]
                     IN /\ get_field_types(answered)
                        /\ toCreate' = new_records
                        /\ sends' = phases_left(prepared, phase_ok)
             ELSE /\ sends' = phases_left(sends, phase_ok)
                  /\ UNCHANGED <<fields, toCreate>>
    /\ cur' = 0
    /\ success_count' = 0
    /\ UNCHANGED <<config, remote, next_id, faults, pc, existing_index, toUpdate,
                   toDelete, calls, result, run, history, tp>>
    /\ UNCHANGED net

\* the return of the bitable policy: the conjunction of its phase results
FinishBitable ==
    /\ pc = "dispatch"
    /\ sends = <<>>
    /\ LET r == results.update /\ results.create /\ results.delete
       IN /\ result' = r
          /\ history' = Append(history, [create |-> toCreate, update |-> toUpdate,
                                         delete |-> toDelete, result |-> r])
    /\ pc' = "done"
    /\ UNCHANGED <<config, fields, remote, next_id, faults, existing_index, toCreate,
                   toUpdate, toDelete, sends, cur, success_count, results, calls,
                   run, tp>>
    /\ UNCHANGED net

\* the sheet policies that start without reading the sheet:
\* _sync_clone_sheet, _sync_full_sheet without an index column (which returns
\* sync_clone(df)) and _sync_incremental_sheet without an index column.  Each
\* begins with self.converter.df_to_values(...), a method DataConverter does
\* not have: the AttributeError leaves sync before any request is made
StartSheet ==
    /\ pc = "idle"
    /\ target_type = "sheet"
    /\ ~overwrite_refused(sync_mode, index_column)
    /\ pc' = "raised"
    /\ UNCHANGED <<config, fields, remote, next_id, faults, existing_index, toCreate,
                   toUpdate, toDelete, sends, cur, success_count, results, calls,
                   result, run, history, tp>>
    /\ UNCHANGED net

\* after a successful run the same local data is synchronised once more
Rerun ==
    /\ pc = "done"
    /\ run < MaxRuns
    /\ result = TRUE
    /\ run' = run + 1
    /\ pc' = "idle"
    /\ existing_index' = <<>>
    /\ toCreate' = <<>>
    /\ toUpdate' = <<>>
    /\ toDelete' = <<>>
    /\ sends' = <<>>
    /\ cur' = 0
    /\ success_count' = 0
    /\ results' = [update |-> TRUE, create |-> TRUE, delete |-> TRUE]
    /\ calls' = <<>>
    /\ fields' = [fields EXCEPT !.calls = <<>>, !.success = FALSE, !.types = Unread]
    /\ result' = FALSE
    /\ UNCHANGED <<config, remote, next_id, faults, history, tp>>
    /\ UNCHANGED net

Next ==
    \/ EnsureFields
    \/ SyncRefused
    \/ StartBitable
    \/ ProcessBatch
    \/ FinishSend
    \/ FinishBitable
    \/ StartSheet
    \/ Rerun

Spec == Init /\ [][Next]_vars

-----------------------------------------------------------------------------
(* The transport: one send.  A bitable send is a policy run over a long    *)
(* plan (the batches of process_in_batches); a sheet send is one call of   *)
(* SheetAPI.append_sheet_data or of the chunked upload                     *)
(* (OptimizedSheetAPI._sync_clone_optimized) over a value matrix, with the *)
(* bisection of _append_chunk_with_auto_split and                          *)
(* _upload_chunk_with_auto_split.                                          *)

MaxItems == 1001     \* longest item list of a bitable send
MaxRows == 4         \* rows of the value matrix of a sheet send
MaxCols == 3         \* columns of the value matrix of a sheet send
MaxOversized == 2    \* oversized answers to the writes of the 1000-row send

ERROR_CODE_REQUEST_TOO_LARGE == 90227

\* the value matrix of a sheet send: cell (r, c) holds <<r, c>>
matrix(rows, cols) == [r \in 1..rows |-> [c \in 1..cols |-> <<r, c>>]]

\* a chunking with the row blocks in the outer loop
create_data_chunks_row_major(values, row_batch_size, col_batch_size) ==
    LET total_rows == Len(values)
        total_cols == IF values # <<>> THEN Len(values[1]) ELSE 0
        col_blocks == (total_cols + col_batch_size - 1) \div col_batch_size
        row_blocks == (total_rows + row_batch_size - 1) \div row_batch_size
        chunk(k) ==
            LET row_start == ((k - 1) \div col_blocks) * row_batch_size
                row_end == Min(row_start + row_batch_size, total_rows)
                col_start == ((k - 1) % col_blocks) * col_batch_size
                col_end == Min(col_start + col_batch_size, total_cols)
                chunk_data == [i \in 1..(row_end - row_start) |->
                                  SubSeq(values[row_start + i], col_start + 1, col_end)]
            IN [data |-> chunk_data,
                start_row |-> row_start + 1,
                end_row |-> row_start + Len(chunk_data),
                start_col |-> col_start + 1,
                end_col |-> col_end]
    IN SelectSeq([k \in 1..(col_blocks * row_blocks) |-> chunk(k)],
                 LAMBDA ch : ch.data # <<>>)

\* _create_data_chunks(values, row_batch_size, col_batch_size) of SheetAPI
\* and of OptimizedSheetAPI: column blocks in the outer loop, row blocks in
\* the inner loop
create_data_chunks(values, row_batch_size, col_batch_size) ==
    LET total_rows == Len(values)
        total_cols == IF values # <<>> THEN Len(values[1]) ELSE 0
        col_blocks == (total_cols + col_batch_size - 1) \div col_batch_size
        row_blocks == (total_rows + row_batch_size - 1) \div row_batch_size
        chunk(k) ==
            LET col_start == ((k - 1) \div row_blocks) * col_batch_size
                col_end == Min(col_start + col_batch_size, total_cols)
                row_start == ((k - 1) % row_blocks) * row_batch_size
                row_end == Min(row_start + row_batch_size, total_rows)
                chunk_data == [i \in 1..(row_end - row_start) |->
                                  SubSeq(values[row_start + i], col_start + 1, col_end)]
            IN [data |-> chunk_data,
                start_row |-> row_start + 1,
                end_row |-> row_start + Len(chunk_data),
                start_col |-> col_start + 1,
                end_col |-> col_end]
    IN SelectSeq([k \in 1..(col_blocks * row_blocks) |-> chunk(k)],
                 LAMBDA ch : ch.data # <<>>)

\* a split that takes one row off the chunk
split_chunk_mut(chunk) ==
    LET num_rows == Len(chunk.data)
    IN <<[data |-> SubSeq(chunk.data, 1, 1),
          start_row |-> chunk.start_row,
          end_row |-> chunk.start_row,
          start_col |-> chunk.start_col,
          end_col |-> chunk.end_col],
         [data |-> SubSeq(chunk.data, 2, num_rows),
          start_row |-> chunk.start_row + 1,
          end_row |-> chunk.end_row,
          start_col |-> chunk.start_col,
          end_col |-> chunk.end_col]>>

\* a split that hands the second half on first
split_chunk_swapped(chunk) ==
    LET num_rows == Len(chunk.data)
        mid_point == num_rows \div 2
    IN <<[data |-> SubSeq(chunk.data, mid_point + 1, num_rows),
          start_row |-> chunk.start_row + mid_point,
          end_row |-> chunk.end_row,
          start_col |-> chunk.start_col,
          end_col |-> chunk.end_col],
         [data |-> SubSeq(chunk.data, 1, mid_point),
          start_row |-> chunk.start_row,
          end_row |-> chunk.start_row + mid_point - 1,
          start_col |-> chunk.start_col,
          end_col |-> chunk.end_col]>>

\* a split whose second half starts one row late
split_chunk_drop(chunk) ==
    LET num_rows == Len(chunk.data)
        mid_point == num_rows \div 2
    IN <<[data |-> SubSeq(chunk.data, 1, mid_point),
          start_row |-> chunk.start_row,
          end_row |-> chunk.start_row + mid_point - 1,
          start_col |-> chunk.start_col,
          end_col |-> chunk.end_col],
         [data |-> SubSeq(chunk.data, mid_point + 2, num_rows),
          start_row |-> chunk.start_row + mid_point + 1,
          end_row |-> chunk.end_row,
          start_col |-> chunk.start_col,
          end_col |-> chunk.end_col]>>

\* a split whose second half is targeted at the rows of the first
split_chunk_misplaced(chunk) ==
    LET num_rows == Len(chunk.data)
        mid_point == num_rows \div 2
        chunk2_data == SubSeq(chunk.data, mid_point + 1, num_rows)
    IN <<[data |-> SubSeq(chunk.data, 1, mid_point),
          start_row |-> chunk.start_row,
          end_row |-> chunk.start_row + mid_point - 1,
          start_col |-> chunk.start_col,
          end_col |-> chunk.end_col],
         [data |-> chunk2_data,
          start_row |-> chunk.start_row,
          end_row |-> chunk.start_row + Len(chunk2_data) - 1,
          start_col |-> chunk.start_col,
          end_col |-> chunk.end_col]>>

\* the two sub-chunks of _upload_chunk_with_auto_split
split_chunk(chunk) ==
    LET num_rows == Len(chunk.data)
        mid_point == num_rows \div 2
        chunk1_data == SubSeq(chunk.data, 1, mid_point)
        chunk2_data == SubSeq(chunk.data, mid_point + 1, num_rows)
    IN <<[data |-> chunk1_data,
          start_row |-> chunk.start_row,
          end_row |-> chunk.start_row + Len(chunk1_data) - 1,
          start_col |-> chunk.start_col,
          end_col |-> chunk.end_col],
         [data |-> chunk2_data,
          start_row |-> chunk.start_row + mid_point,
          end_row |-> chunk.start_row + mid_point + Len(chunk2_data) - 1,
          start_col |-> chunk.start_col,
          end_col |-> chunk.end_col]>>

\* the two halves of _append_chunk_with_auto_split: an append chunk is its
\* rows only
split_values(chunk) ==
    LET num_rows == Len(chunk.data)
        mid_point == num_rows \div 2
    IN <<[data |-> SubSeq(chunk.data, 1, mid_point)],
         [data |-> SubSeq(chunk.data, mid_point + 1, num_rows)]>>

\* the answers the remote may give to the next write of the send
outcomes_left(send) ==
    IF send.oversized_left > 0 THEN WriteOutcomes ELSE WriteOutcomes \ {"oversized"}

\* every failure read as the oversized code
error_code_of_mut(outcome) ==
    IF outcome = "ok" THEN 0 ELSE ERROR_CODE_REQUEST_TOO_LARGE

\* the error code _batch_update_ranges / _append_single_batch return with an
\* answer; 0 on success, 1 stands for any other business code
error_code_of(outcome) ==
    CASE outcome = "ok" -> 0
      [] outcome = "oversized" -> ERROR_CODE_REQUEST_TOO_LARGE
      [] OTHER -> 1

\* the state of a sheet send before its first step
sheet_send(kind, rows, cols, rbs, cbs) ==
    [kind |-> kind,
     values |-> matrix(rows, cols),
     row_batch_size |-> rbs,
     col_batch_size |-> cbs,
     chunks |-> <<>>,        \* data_chunks not yet handed to the auto-split
     stack |-> <<>>,         \* the auto-split calls not yet made, innermost first,
                             \* each with its recursion depth and the rows of
                             \* the initial chunk it comes from
     log |-> <<>>,           \* every chunk write issued, with its answer
     splits |-> 0,           \* number of bisections made
     oversized_left |-> rows * cols]   \* oversized answers the remote may still
                                       \* give: never fewer than the send can get

\* the long plans: n local rows and m remote records with the same index value
LargeCounts == {0, 1, 499, 500, 501, 999, 1000, MaxItems}
LargeBatchSizes == {400, 500, 501, 1000, MaxItems}

\* a bitable sync about to run over a long plan
InitBitableSend ==
    /\ target_type = "bitable"
    /\ sync_mode \in {"full", "incremental", "overwrite", "clone"}
    /\ index_column = "ID"
    /\ batch_size \in LargeBatchSizes
    \* every remote record is read by Clone only
    /\ \E n \in LargeCounts :
       \E m \in IF sync_mode = "clone" THEN {0, 1, n} ELSE {0, 1} :
          /\ df = [i \in 1..n |-> StrV("a")]
          /\ remote = [i \in 1..m |-> [record_id |-> i, f |-> StrV("a")]]
          /\ next_id = m + 1
    \* the table has every column of df
    /\ create_missing_fields = TRUE
    /\ fields = [missing |-> 0, calls |-> <<>>, success |-> FALSE, types |-> Unread]
    /\ pc = "idle"
    /\ tp = NoTransport
    /\ field_type = 1
    /\ faults = 0
    /\ IdlePlan
    /\ run = 1
    /\ history = <<>>
    /\ net = NoCall

\* a sheet send about to run: append_sheet_data, or the chunked upload
InitSheetSend ==
    /\ target_type = "sheet"
    /\ sync_mode \in {"incremental", "clone"}
    /\ index_column = NoColumn
    /\ batch_size = 1
    /\ df = <<>>
    /\ remote = <<>>
    /\ next_id = 1
    /\ create_missing_fields = TRUE
    /\ fields = NoFields
    /\ pc = "chunking"
    \* the configured column batch size is any value for either send;
    \* append_sheet_data takes none
    /\ \E rows \in 0..MaxRows, cols \in 1..MaxCols, rbs \in 1..MaxRows,
          cbs \in 1..MaxCols :
          \/ /\ sync_mode = "incremental"
             /\ tp = sheet_send("append", rows, cols, rbs, cbs)
          \/ /\ sync_mode = "clone"
             /\ tp = sheet_send("upload", rows, cols, rbs, cbs)
    /\ field_type = 1
    /\ faults = 0
    /\ IdlePlan
    /\ run = 1
    /\ history = <<>>
    /\ net = NoCall

\* the chunked upload of one column of 1000 rows in one initial chunk, the
\* remote answering oversized at most MaxOversized times
InitLargeUpload ==
    /\ target_type = "sheet"
    /\ sync_mode = "clone"
    /\ index_column = NoColumn
    /\ batch_size = 1
    /\ df = <<>>
    /\ remote = <<>>
    /\ next_id = 1
    /\ create_missing_fields = TRUE
    /\ fields = NoFields
    /\ pc = "chunking"
    /\ tp = [sheet_send("upload", 1000, 1, 1000, 1) EXCEPT !.oversized_left = MaxOversized]
    /\ field_type = 1
    /\ faults = 0
    /\ IdlePlan
    /\ run = 1
    /\ history = <<>>
    /\ net = NoCall

InitTransport == InitBitableSend \/ InitSheetSend \/ InitLargeUpload

\* the column size a send of values hands to _create_data_chunks: an upload
\* its col_batch_size; an append, which chunks by rows only, len(values[0])
chunk_cols(t) ==
    IF t.kind = "append" THEN Len(t.values[1]) ELSE t.col_batch_size

\* the head of append_sheet_data / of the chunked upload: nothing to send, or
\* the initial chunks
CreateChunks ==
    /\ pc = "chunking"
    /\ IF tp.values = <<>>
       THEN /\ result' = TRUE
            /\ pc' = "done"
            /\ tp' = tp
       ELSE LET data_chunks == create_data_chunks(tp.values, tp.row_batch_size,
                                                  chunk_cols(tp))
            IN /\ tp' = [tp EXCEPT !.chunks =
                            IF tp.kind = "append"
                            THEN [k \in 1..Len(data_chunks) |->
                                     [data |-> data_chunks[k].data]]
                            ELSE data_chunks]
               /\ pc' = "sending"
               /\ result' = result
    /\ UNCHANGED <<config, fields, remote, next_id, faults, existing_index, toCreate,
                   toUpdate, toDelete, sends, cur, success_count, results, calls,
                   run, history>>
    /\ UNCHANGED net

\* one iteration of the loop over data_chunks: the next initial chunk is
\* handed to the auto-split
NextChunk ==
    /\ pc = "sending"
    /\ tp.stack = <<>>
    /\ tp.chunks # <<>>
    /\ tp' = [tp EXCEPT !.stack = <<[chunk |-> Head(tp.chunks), depth |-> 0,
                                     root |-> Len(Head(tp.chunks).data)]>>,
                        !.chunks = Tail(tp.chunks)]
    /\ UNCHANGED <<config, fields, remote, next_id, faults, pc, existing_index, toCreate,
                   toUpdate, toDelete, sends, cur, success_count, results, calls,
                   result, run, history>>
    /\ UNCHANGED net

\* one call of _upload_chunk_with_auto_split / _append_chunk_with_auto_split:
\* the chunk is written; on the oversized code a chunk of more than one row
\* is split and its halves are called, first half first; any other failure
\* returns False through every enclosing `and` and out of the loop
WriteChunk ==
    /\ pc = "sending"
    /\ tp.stack # <<>>
    /\ LET frame == Head(tp.stack)
           chunk == frame.chunk
           num_rows == Len(chunk.data)
           halves == IF tp.kind = "append" THEN split_values(chunk)
                     ELSE split_chunk(chunk)
       IN \E outcome \in outcomes_left(tp) :
             LET error_code == error_code_of(outcome)
                 entry == [chunk |-> chunk, outcome |-> outcome, depth |-> frame.depth,
                           root |-> frame.root]
                 failed == [tp EXCEPT !.log = Append(tp.log, entry),
                                      !.stack = <<>>, !.chunks = <<>>]
             IN CASE outcome = "ok" ->
                       /\ tp' = [tp EXCEPT !.log = Append(tp.log, entry),
                                           !.stack = Tail(tp.stack)]
                       /\ UNCHANGED <<pc, result>>
                  [] error_code = ERROR_CODE_REQUEST_TOO_LARGE /\ num_rows > 1 ->
                       /\ tp' = [tp EXCEPT
                                   !.log = Append(tp.log, entry),
                                   !.splits = tp.splits + 1,
                                   !.oversized_left = tp.oversized_left - 1,
                                   !.stack = <<[chunk |-> halves[1], depth |-> frame.depth + 1,
                                                root |-> frame.root],
                                               [chunk |-> halves[2], depth |-> frame.depth + 1,
                                                root |-> frame.root]>>
                                             \o Tail(tp.stack)]
                       /\ UNCHANGED <<pc, result>>
                  [] OTHER ->
                       /\ tp' = failed
                       /\ result' = FALSE
                       /\ pc' = "done"
    /\ UNCHANGED <<config, fields, remote, next_id, faults, existing_index, toCreate,
                   toUpdate, toDelete, sends, cur, success_count, results, calls,
                   run, history>>
    /\ UNCHANGED net

\* the return of the send after its last initial chunk
ReturnSend ==
    /\ pc = "sending"
    /\ tp.stack = <<>>
    /\ tp.chunks = <<>>
    /\ result' = TRUE
    /\ pc' = "done"
    /\ UNCHANGED <<config, fields, remote, next_id, faults, existing_index, toCreate,
                   toUpdate, toDelete, sends, cur, success_count, results, calls,
                   run, history, tp>>
    /\ UNCHANGED net

NextTransport ==
    \/ EnsureFields
    \/ StartBitable
    \/ ProcessBatch
    \/ FinishSend
    \/ FinishBitable
    \/ CreateChunks
    \/ NextChunk
    \/ WriteChunk
    \/ ReturnSend

SpecTransport == InitTransport /\ [][NextTransport]_vars

\* the steps of a sheet send
NextSheetSend ==
    \/ CreateChunks
    \/ NextChunk
    \/ WriteChunk
    \/ ReturnSend

\* a sheet send that is not stopped from outside keeps running: the loop of
\* the send and the auto-split take their next step
SpecSheetSend == InitSheetSend /\ [][NextSheetSend]_vars /\ WF_vars(NextSheetSend)

-----------------------------------------------------------------------------
(* The API client: one call of a BitableAPI function (batch_create_records, *)
(* batch_update_records, batch_delete_records, get_all_records,            *)
(* list_fields), of BitableAPI._call_api_with_biz_retry or of              *)
(* RetryableAPIClient.call_api in its legacy mode, against a server that   *)
(* answers every HTTP request as it likes.                                 *)

MaxRetries == 2        \* largest max_retries of the client
MaxNetFaults == 4      \* answers other than HTTP 200 with code 0, per call
MaxApiFaults == 1      \* the same, for a paged read
MaxPageItems == 1      \* records of one page
MaxPages == 3          \* pages a paged read may request

BIZ_MAX_RETRIES == 3   \* default max_retries of _call_api_with_biz_retry

RETRYABLE_BIZ_CODES == {1254290, 1254607, 1254002, 1254001, 1254006}
NON_RETRYABLE_BIZ_CODES == {1254000, 1254003, 1254004, 1254005, 1254040}

\* every failing business code taken for a retryable one
is_retryable_biz_code_mut(code) == code # 0

\* BitableAPI._is_retryable_biz_code
is_retryable_biz_code(code) == code \in RETRYABLE_BIZ_CODES

\* the business codes the server of the model answers with: success, a
\* retryable code, a listed permanent code, an unknown code
BizCodes == {0, 1254290, 1254000, 1254999}
HttpStatuses == {200, 400, 429, 500}
PageTokens == {"", "t1", "t2"}

BatchFunctions == {"batch_create_records", "batch_update_records", "batch_delete_records"}
PagedFunctions == {"get_all_records", "list_fields"}
ClientFunctions == BatchFunctions \cup PagedFunctions \cup {"call_api_with_biz_retry", "call_api"}

\* one limit for the three batch functions
batch_limit_mut(fn) == MAX_BATCH_CREATE_SIZE

\* the local limit of a batch function
batch_limit(fn) ==
    CASE fn = "batch_create_records" -> MAX_BATCH_CREATE_SIZE
      [] fn = "batch_update_records" -> MAX_BATCH_UPDATE_SIZE
      [] fn = "batch_delete_records" -> MAX_BATCH_DELETE_SIZE

NoResponse == [kind |-> "none", status |-> 0, json |-> FALSE, code |-> 0,
               items |-> <<>>, has_more |-> FALSE, page_token |-> ""]

\* a requests.Response: json says whether response.json() parses
Response(status, json, code, items, has_more, page_token) ==
    [kind |-> "response", status |-> status, json |-> json, code |-> code,
     items |-> items, has_more |-> has_more, page_token |-> page_token]

\* requests.request raising a RequestException
RequestException == [NoResponse EXCEPT !.kind = "exception"]

\* the records of the page_num-th page of a read
page_items(page_num, k) == [i \in 1..k |-> [page |-> page_num, i |-> i]]

\* the answers to one HTTP request: HTTP 200 with code 0 (and, for a paged
\* read, a page with any has_more and page token) is always possible; any
\* other answer while the faults of the call last
Answers(call) ==
    LET pages == IF call.fn \in PagedFunctions
                 THEN {Response(200, TRUE, 0, page_items(call.page_num + 1, call.page_size),
                                more, token) :
                          more \in BOOLEAN, token \in PageTokens}
                 ELSE {Response(200, TRUE, 0, <<>>, FALSE, "")}
        faulty == {RequestException,
                   Response(200, FALSE, 0, <<>>, FALSE, ""),
                   Response(200, TRUE, 1254290, <<>>, FALSE, ""),
                   Response(200, TRUE, 1254000, <<>>, FALSE, ""),
                   Response(500, FALSE, 0, <<>>, FALSE, "")}
        more_faulty == {Response(st, FALSE, 0, <<>>, FALSE, "") : st \in HttpStatuses}
                       \cup {Response(200, TRUE, code, <<>>, FALSE, "") : code \in BizCodes}
                       \cup {Response(400, TRUE, 1254000, <<>>, FALSE, ""),
                             Response(429, TRUE, 1254290, <<>>, FALSE, ""),
                             Response(500, TRUE, 1254290, <<>>, FALSE, "")}
    IN pages \cup (IF call.faults_left = 0 THEN {}
                   ELSE IF call.fn \in {"call_api", "call_api_with_biz_retry"}
                   THEN faulty \cup more_faulty
                   ELSE faulty)

\* the state of the client at the call fn(n items) with the given max_retries,
\* against a table that serves page_size records per page
client_call(fn, n, page_size, max_retries) ==
    [fn |-> fn,
     n |-> n,                     \* items passed to a batch function
     page_size |-> page_size,     \* records on every page of a paged read
     max_retries |-> max_retries, \* RetryableAPIClient.max_retries
     pc |-> "api",
     faults_left |-> IF fn \in PagedFunctions THEN MaxApiFaults ELSE MaxNetFaults,
     auth |-> 0,                  \* calls of auth.get_auth_headers
     api_calls |-> 0,             \* call_api invocations of the running biz retry
     biz_attempt |-> 0,           \* attempt of _call_api_with_biz_retry
     attempt |-> 0,               \* attempt of _call_api_legacy
     events |-> <<>>,             \* rate limiter waits, HTTP requests and sleeps, in order
     returns |-> <<>>,            \* every response call_api returned to
                                  \* _call_api_with_biz_retry, with the attempt and
                                  \* the sleep that followed (-1: none)
     response |-> NoResponse,     \* the response call_api returned last
     page_token |-> "",           \* page_token of the paged read ("" for None)
     seen_page_tokens |-> {},
     all_records |-> <<>>,
     page_num |-> 0,
     pages |-> <<>>,              \* every page received, in order
     ret |-> FALSE]               \* the value a batch function returned

\* one entry of the event log of a call
event(e, t, token, answer) == [e |-> e, t |-> t, token |-> token, answer |-> answer]

\* item counts of a direct call of a batch function: none, the limit of the
\* function, one more
BatchCounts(fn) == {0, batch_limit(fn), batch_limit(fn) + 1}

InitClient ==
    /\ target_type = "bitable"
    /\ sync_mode = "full"
    /\ index_column = NoColumn
    /\ field_type = 1
    /\ batch_size = 1
    /\ df = <<>>
    /\ remote = <<>>
    /\ next_id = 1
    /\ create_missing_fields = TRUE
    /\ fields = NoFields
    /\ faults = 0
    /\ pc = "client"
    /\ IdlePlan
    /\ run = 1
    /\ history = <<>>
    /\ tp = NoTransport
    /\ \E fn \in ClientFunctions, max_retries \in 0..MaxRetries :
       \E n \in IF fn \in BatchFunctions THEN BatchCounts(fn) ELSE {0} :
       \E page_size \in IF fn \in PagedFunctions THEN 0..MaxPageItems ELSE {0} :
          net = client_call(fn, n, page_size, max_retries)

\* the start of the _call_api_with_biz_retry a function makes with its
\* request
biz_call(call) ==
    [call EXCEPT !.pc = "biz", !.biz_attempt = 0, !.api_calls = 0, !.returns = <<>>]

\* the head of the called function, up to its first request: the local limit
\* check of the batch functions, get_auth_headers, the first page request
ApiEnter ==
    /\ net.fn # "none"
    /\ net.pc = "api"
    /\ net' =
         CASE net.fn \in BatchFunctions ->
                 IF net.n > batch_limit(net.fn)
                 THEN [net EXCEPT !.pc = "returned", !.ret = FALSE]
                 ELSE biz_call([net EXCEPT !.auth = net.auth + 1])
           [] net.fn \in PagedFunctions ->
                 biz_call([net EXCEPT !.auth = net.auth + 1])
           [] net.fn = "call_api_with_biz_retry" -> biz_call(net)
           [] net.fn = "call_api" -> [net EXCEPT !.pc = "http", !.attempt = 0]
    /\ UNCHANGED engine_vars

\* one iteration of the loop of _call_api_with_biz_retry, up to its call of
\* call_api
BizAttempt ==
    /\ net.fn # "none"
    /\ net.pc = "biz"
    /\ net' = [net EXCEPT !.pc = "http", !.attempt = 0, !.api_calls = net.api_calls + 1]
    /\ UNCHANGED engine_vars

\* 2**attempt
backoff(attempt) == 2 ^ attempt

\* a client that retries raised exceptions only
is_transient_mut(answer) == answer.kind = "exception"

\* the answers _call_api_legacy retries: HTTP 429, a status of 500 and above,
\* a raised RequestException
is_transient(answer) ==
    \/ answer.kind = "exception"
    \/ answer.status = 429
    \/ answer.status >= 500

\* a client that never retries
retries_remain_never(attempt, max_retries) == FALSE

\* a client that gives up one attempt early
retries_remain_mut(attempt, max_retries) == attempt + 1 < max_retries

\* attempt < self.max_retries
retries_remain(attempt, max_retries) == attempt < max_retries

\* one iteration of the loop of _call_api_legacy: rate_limiter.wait(), the
\* HTTP request, and the decision to retry, to return the response or to
\* re-raise
HttpAttempt ==
    /\ net.fn # "none"
    /\ net.pc = "http"
    /\ \E answer \in Answers(net) :
          LET clean == answer.kind = "response" /\ answer.status = 200
                       /\ answer.json /\ answer.code = 0
              sent == net.events \o <<event("wait", 0, "", NoResponse),
                                      event("request", 0, net.page_token, answer)>>
              used == [net EXCEPT !.events = sent,
                                  !.faults_left = IF clean THEN net.faults_left
                                                  ELSE net.faults_left - 1]
              transient == is_transient(answer)
          IN net' =
               IF transient /\ retries_remain(net.attempt, net.max_retries)
               THEN [used EXCEPT !.events = Append(sent, event("sleep", backoff(net.attempt),
                                                               "", NoResponse)),
                                 !.attempt = net.attempt + 1]
               ELSE IF answer.kind = "exception"
               THEN [used EXCEPT !.pc = "raised"]
               ELSE [used EXCEPT !.response = answer,
                                 !.pc = IF net.fn = "call_api" THEN "returned"
                                        ELSE "biz_return"]
    /\ UNCHANGED engine_vars

\* a business retry that never gives up
biz_retries_remain_always(attempt, max_retries) == TRUE

\* attempt < max_retries of _call_api_with_biz_retry
biz_retries_remain(attempt, max_retries) == attempt < max_retries

\* the rest of the iteration of _call_api_with_biz_retry: the response is
\* returned unless its body carries a retryable business code and retries
\* remain
BizReturn ==
    /\ net.fn # "none"
    /\ net.pc = "biz_return"
    /\ LET response == net.response
           back == IF net.fn = "call_api_with_biz_retry" THEN "returned" ELSE "api_return"
           wait_time == backoff(net.biz_attempt)
           noted(slept) == Append(net.returns, [response |-> response,
                                                attempt |-> net.biz_attempt,
                                                slept |-> slept])
           handed == [net EXCEPT !.pc = back, !.returns = noted(-1)]
       IN net' =
            IF ~response.json THEN handed
            ELSE IF response.code = 0 \/ ~is_retryable_biz_code(response.code)
            THEN handed
            ELSE IF biz_retries_remain(net.biz_attempt, BIZ_MAX_RETRIES)
            THEN [net EXCEPT !.events = Append(net.events,
                                           event("sleep", wait_time, "", NoResponse)),
                             !.returns = noted(wait_time),
                             !.biz_attempt = net.biz_attempt + 1,
                             !.pc = "biz"]
            ELSE handed
    /\ UNCHANGED engine_vars

\* the tail of a batch function: False on an unparsable body or a non-zero
\* code, True otherwise
batch_return(call) ==
    LET response == call.response
    IN [call EXCEPT !.pc = "returned", !.ret = response.json /\ response.code = 0]

\* a read without the guard against a repeated page token
get_all_records_step_noguard(call) ==
    LET response == call.response
        next_page_token == IF response.has_more THEN response.page_token ELSE ""
        added == [call EXCEPT !.all_records = call.all_records \o response.items,
                              !.page_num = call.page_num + 1,
                              !.pages = Append(call.pages, response.items)]
    IN IF ~response.json \/ response.code # 0 THEN [call EXCEPT !.pc = "raised"]
       ELSE IF next_page_token = ""
       THEN [added EXCEPT !.page_token = "", !.pc = "returned"]
       ELSE biz_call([added EXCEPT
                         !.seen_page_tokens = call.seen_page_tokens \cup {next_page_token},
                         !.page_token = next_page_token,
                         !.auth = call.auth + 1])

\* a read that puts every new page in front of the pages it holds
get_all_records_step_mut(call) ==
    LET response == call.response
        next_page_token == IF response.has_more THEN response.page_token ELSE ""
        added == [call EXCEPT !.all_records = response.items \o call.all_records,
                              !.page_num = call.page_num + 1,
                              !.pages = Append(call.pages, response.items)]
    IN IF ~response.json \/ response.code # 0 THEN [call EXCEPT !.pc = "raised"]
       ELSE IF next_page_token # "" /\ next_page_token \in call.seen_page_tokens
       THEN [added EXCEPT !.pc = "raised"]
       ELSE IF next_page_token = ""
       THEN [added EXCEPT !.page_token = "", !.pc = "returned"]
       ELSE biz_call([added EXCEPT
                         !.seen_page_tokens = call.seen_page_tokens \cup {next_page_token},
                         !.page_token = next_page_token,
                         !.auth = call.auth + 1])

\* the tail of search_records and the rest of the iteration of
\* get_all_records: the page is added, a repeated next page token raises,
\* no next page token ends the read
get_all_records_step(call) ==
    LET response == call.response
        next_page_token == IF response.has_more THEN response.page_token ELSE ""
        added == [call EXCEPT !.all_records = call.all_records \o response.items,
                              !.page_num = call.page_num + 1,
                              !.pages = Append(call.pages, response.items)]
    IN IF ~response.json \/ response.code # 0 THEN [call EXCEPT !.pc = "raised"]
       ELSE IF next_page_token # "" /\ next_page_token \in call.seen_page_tokens
       THEN [added EXCEPT !.pc = "raised"]
       ELSE IF next_page_token = ""
       THEN [added EXCEPT !.page_token = "", !.pc = "returned"]
       ELSE biz_call([added EXCEPT
                         !.seen_page_tokens = call.seen_page_tokens \cup {next_page_token},
                         !.page_token = next_page_token,
                         !.auth = call.auth + 1])

\* a list_fields with the guard of get_all_records against a repeated token
list_fields_step_guarded(call) ==
    LET response == call.response
        added == [call EXCEPT !.all_records = call.all_records \o response.items,
                              !.page_num = call.page_num + 1,
                              !.pages = Append(call.pages, response.items)]
    IN IF ~response.json \/ response.code # 0 THEN [call EXCEPT !.pc = "raised"]
       ELSE IF ~response.has_more THEN [added EXCEPT !.pc = "returned"]
       ELSE IF response.page_token \in call.seen_page_tokens
       THEN [added EXCEPT !.pc = "raised"]
       ELSE biz_call([added EXCEPT
                         !.page_token = response.page_token,
                         !.seen_page_tokens =
                             call.seen_page_tokens \cup {response.page_token}])

\* the rest of the iteration of list_fields: the page is added, has_more
\* false ends the read, otherwise the page token of the page is requested
list_fields_step(call) ==
    LET response == call.response
        added == [call EXCEPT !.all_records = call.all_records \o response.items,
                              !.page_num = call.page_num + 1,
                              !.pages = Append(call.pages, response.items)]
    IN IF ~response.json \/ response.code # 0 THEN [call EXCEPT !.pc = "raised"]
       ELSE IF ~response.has_more THEN [added EXCEPT !.pc = "returned"]
       ELSE biz_call([added EXCEPT !.page_token = response.page_token])

\* the called function after its request returned
ApiReturn ==
    /\ net.fn # "none"
    /\ net.pc = "api_return"
    /\ net.page_num < MaxPages
    /\ net' = CASE net.fn \in BatchFunctions -> batch_return(net)
                [] net.fn = "get_all_records" -> get_all_records_step(net)
                [] net.fn = "list_fields" -> list_fields_step(net)
    /\ UNCHANGED engine_vars

NextClient ==
    \/ ApiEnter
    \/ BizAttempt
    \/ HttpAttempt
    \/ BizReturn
    \/ ApiReturn

SpecClient == InitClient /\ [][NextClient]_vars

\* the client runs on: a call that can take a step takes it
SpecClientLive == SpecClient /\ WF_vars(NextClient)

-----------------------------------------------------------------------------
(* The chunked upload (OptimizedSheetAPI.sync_data in clone mode) over the  *)
(* legacy client: every write of _upload_chunk_with_auto_split is a         *)
(* _batch_update_ranges, whose call_api runs the loop of _call_api_legacy.  *)
(* The upload is the record tp, the client the record net.                  *)

MaxUploadRows == 3     \* rows of the uploaded column
MaxUploadFaults == 3   \* answers other than HTTP 200 with code 0, per upload

\* error_code of _batch_update_ranges when the body does not parse (None)
NoErrorCode == -1

\* the answers of the server to a values_batch_update request: accepted;
\* while the faults last, a raised exception, a rate limit or server error
\* without a body, the oversized code under any status, another business
\* code, a body that does not parse
UploadAnswers(call) ==
    {Response(200, TRUE, 0, <<>>, FALSE, "")}
    \cup (IF call.faults_left = 0 THEN {}
          ELSE {RequestException,
                Response(429, FALSE, 0, <<>>, FALSE, ""),
                Response(500, FALSE, 0, <<>>, FALSE, ""),
                Response(200, TRUE, ERROR_CODE_REQUEST_TOO_LARGE, <<>>, FALSE, ""),
                Response(400, TRUE, ERROR_CODE_REQUEST_TOO_LARGE, <<>>, FALSE, ""),
                Response(500, TRUE, ERROR_CODE_REQUEST_TOO_LARGE, <<>>, FALSE, ""),
                Response(200, TRUE, 1254000, <<>>, FALSE, ""),
                Response(200, FALSE, 0, <<>>, FALSE, "")})

\* the pair (success, error code) _batch_update_ranges returns for the
\* response of call_api (is_clear false)
batch_update_ranges(response) ==
    IF ~response.json THEN [success |-> FALSE, error_code |-> NoErrorCode]
    ELSE IF response.code # 0 THEN [success |-> FALSE, error_code |-> response.code]
    ELSE [success |-> TRUE, error_code |-> 0]

\* the outcome of a chunk write as the log of the send names it
outcome_of(r) ==
    IF r.success THEN "ok"
    ELSE IF r.error_code = ERROR_CODE_REQUEST_TOO_LARGE THEN "oversized"
    ELSE "other"

\* the legacy client of an upload
upload_client(max_retries) ==
    [fn |-> "batch_update_ranges",
     max_retries |-> max_retries,
     attempt |-> 0,                \* attempt of the running _call_api_legacy
     faults_left |-> MaxUploadFaults,
     requests |-> <<>>]            \* every HTTP request sent, with its payload
                                   \* and its answer

\* the upload of one column of up to MaxUploadRows rows
InitUpload ==
    /\ target_type = "sheet"
    /\ sync_mode = "clone"
    /\ index_column = NoColumn
    /\ batch_size = 1
    /\ df = <<>>
    /\ remote = <<>>
    /\ next_id = 1
    /\ create_missing_fields = TRUE
    /\ fields = NoFields
    /\ pc = "chunking"
    /\ \E rows \in 1..MaxUploadRows, rbs \in 1..MaxUploadRows :
          tp = sheet_send("upload", rows, 1, rbs, 1)
    /\ \E max_retries \in 0..MaxRetries : net = upload_client(max_retries)
    /\ field_type = 1
    /\ faults = 0
    /\ IdlePlan
    /\ run = 1
    /\ history = <<>>

\* one iteration of the loop of _call_api_legacy under _batch_update_ranges
\* under _upload_chunk_with_auto_split: the chunk on top of the stack is
\* sent; a transient answer is retried while retries remain; an exception
\* that is not retried leaves the upload; a returned response is read by
\* _batch_update_ranges and the auto-split goes on as in WriteChunk
UploadAttempt ==
    /\ pc = "sending"
    /\ tp.stack # <<>>
    /\ net.fn = "batch_update_ranges"
    /\ LET frame == Head(tp.stack)
           chunk == frame.chunk
           num_rows == Len(chunk.data)
           halves == split_chunk(chunk)
       IN \E answer \in UploadAnswers(net) :
             LET clean == answer.status = 200 /\ answer.json /\ answer.code = 0
                 used == [net EXCEPT
                            !.requests = Append(net.requests,
                                                [chunk |-> chunk, answer |-> answer,
                                                 attempt |-> net.attempt]),
                            !.faults_left = IF clean THEN net.faults_left
                                            ELSE net.faults_left - 1]
                 r == batch_update_ranges(answer)
                 entry == [chunk |-> chunk, outcome |-> outcome_of(r),
                           depth |-> frame.depth, root |-> frame.root]
                 logged == [tp EXCEPT !.log = Append(tp.log, entry)]
             IN IF is_transient(answer) /\ retries_remain(net.attempt, net.max_retries)
                THEN /\ net' = [used EXCEPT !.attempt = net.attempt + 1]
                     /\ UNCHANGED <<tp, pc, result>>
                ELSE IF answer.kind = "exception"
                THEN /\ net' = used
                     /\ pc' = "raised"
                     /\ UNCHANGED <<tp, result>>
                ELSE /\ net' = [used EXCEPT !.attempt = 0]
                     /\ CASE r.success ->
                               /\ tp' = [logged EXCEPT !.stack = Tail(tp.stack)]
                               /\ UNCHANGED <<pc, result>>
                          [] r.error_code = ERROR_CODE_REQUEST_TOO_LARGE /\ num_rows > 1 ->
                               /\ tp' = [logged EXCEPT
                                           !.splits = tp.splits + 1,
                                           !.stack =
                                              <<[chunk |-> halves[1],
                                                 depth |-> frame.depth + 1,
                                                 root |-> frame.root],
                                                [chunk |-> halves[2],
                                                 depth |-> frame.depth + 1,
                                                 root |-> frame.root]>>
                                              \o Tail(tp.stack)]
                               /\ UNCHANGED <<pc, result>>
                          [] OTHER ->
                               /\ tp' = [logged EXCEPT !.stack = <<>>, !.chunks = <<>>]
                               /\ result' = FALSE
                               /\ pc' = "done"
    /\ UNCHANGED <<config, fields, remote, next_id, faults, existing_index, toCreate,
                   toUpdate, toDelete, sends, cur, success_count, results, calls,
                   run, history>>

NextUpload ==
    \/ CreateChunks
    \/ NextChunk
    \/ UploadAttempt
    \/ ReturnSend

SpecUpload == InitUpload /\ [][NextUpload]_vars

-----------------------------------------------------------------------------
(* The request controller: retry strategies, rate limiters and              *)
(* execute_request. Its module, core/control.py, is imported by api/base.py *)
(* and exercised by tests/test_control.py but is not among the sources; it  *)
(* is modelled from the specification, sections 4.3 to 4.5. RateLimiter of  *)
(* api/base.py is modelled from its code. Durations and clock readings are  *)
(* integers, in units of half a second. The state of the scenario is the    *)
(* record net.                                                              *)

MaxAttempt == 4       \* attempt numbers a retry strategy is asked about
MaxElapsed == 11      \* elapsed times a retry strategy is asked about

\* max_wait_time = None: no cap is configured
NoMaxWait == -1

RetryKinds == {"exponential_backoff", "linear_growth", "fixed_wait"}

\* a retry strategy with its RetryConfig
RetryStrategy(kind, initial_delay, step, max_retries, max_wait_time) ==
    [kind |-> kind,
     initial_delay |-> initial_delay,
     multiplier |-> IF kind = "exponential_backoff" THEN step ELSE 0,
     increment |-> IF kind = "linear_growth" THEN step ELSE 0,
     max_retries |-> max_retries,
     max_wait_time |-> max_wait_time]

\* the ceiling max_wait_time puts on one delay, when configured
capped(delay, max_wait_time) ==
    IF max_wait_time = NoMaxWait THEN delay ELSE Min(delay, max_wait_time)

\* a delay that ignores max_wait_time
get_delay_uncapped(strategy, attempt) ==
    CASE strategy.kind = "exponential_backoff" ->
            strategy.initial_delay * strategy.multiplier ^ attempt
      [] strategy.kind = "linear_growth" ->
            strategy.initial_delay + strategy.increment * attempt
      [] OTHER -> strategy.initial_delay

\* get_delay(attempt) of the three retry strategies
get_delay(strategy, attempt) ==
    CASE strategy.kind = "exponential_backoff" ->
            capped(strategy.initial_delay * strategy.multiplier ^ attempt,
                   strategy.max_wait_time)
      [] strategy.kind = "linear_growth" ->
            capped(strategy.initial_delay + strategy.increment * attempt,
                   strategy.max_wait_time)
      [] OTHER -> strategy.initial_delay

\* a strategy that allows the attempt numbered max_retries a retry too
should_retry_mut(strategy, attempt, elapsed_time) ==
    /\ attempt <= strategy.max_retries
    /\ strategy.max_wait_time # NoMaxWait => elapsed_time < strategy.max_wait_time

\* a strategy that stops only past max_wait_time
should_retry_late(strategy, attempt, elapsed_time) ==
    /\ attempt < strategy.max_retries
    /\ strategy.max_wait_time # NoMaxWait => elapsed_time <= strategy.max_wait_time

\* should_retry(attempt, elapsed_time), common to the three strategies
should_retry(strategy, attempt, elapsed_time) ==
    /\ attempt < strategy.max_retries
    /\ strategy.max_wait_time # NoMaxWait => elapsed_time < strategy.max_wait_time

\* the strategies of the model: initial delays of half a second and a second,
\* multiplier 2 or increment of half a second, a cap of 1.5 s, 5 s or none
Strategies ==
    {RetryStrategy(kind, initial_delay, IF kind = "exponential_backoff" THEN 2 ELSE 1,
                   max_retries, max_wait_time) :
        kind \in RetryKinds, initial_delay \in {1, 2}, max_retries \in 0..MaxRetries,
        max_wait_time \in {NoMaxWait, 3, 10}}

\* the engine is idle while the controller is exercised
EngineIdle ==
    /\ target_type = "bitable"
    /\ sync_mode = "full"
    /\ index_column = NoColumn
    /\ field_type = 1
    /\ batch_size = 1
    /\ df = <<>>
    /\ remote = <<>>
    /\ next_id = 1
    /\ create_missing_fields = TRUE
    /\ fields = NoFields
    /\ faults = 0
    /\ pc = "control"
    /\ IdlePlan
    /\ run = 1
    /\ history = <<>>
    /\ tp = NoTransport

\* a retry strategy about to be asked for the delay of an attempt and for
\* whether to retry
InitStrategy ==
    /\ EngineIdle
    /\ \E strategy \in Strategies, attempt \in 0..MaxAttempt, elapsed_time \in 0..MaxElapsed :
          net = [fn |-> "retry_strategy", pc |-> "call", strategy |-> strategy,
                 attempt |-> attempt, elapsed_time |-> elapsed_time,
                 delay |-> 0, retry |-> FALSE]

\* get_delay(attempt) and should_retry(attempt, elapsed_time)
AskStrategy ==
    /\ net.fn = "retry_strategy"
    /\ net.pc = "call"
    /\ net' = [net EXCEPT !.delay = get_delay(net.strategy, net.attempt),
                          !.retry = should_retry(net.strategy, net.attempt,
                                                 net.elapsed_time),
                          !.pc = "returned"]
    /\ UNCHANGED engine_vars

\* the retry strategies a RequestController is built with in the model
ControllerStrategies ==
    {RetryStrategy(kind, 1, IF kind = "exponential_backoff" THEN 2 ELSE 1,
                   max_retries, max_wait_time) :
        kind \in RetryKinds, max_retries \in 0..(MaxRetries + 1),
        max_wait_time \in {NoMaxWait, 3}}

\* RequestController.execute_request(callable) about to start
InitExecute ==
    /\ EngineIdle
    /\ \E strategy \in ControllerStrategies :
          net = [fn |-> "execute_request", pc |-> "attempt", strategy |-> strategy,
                 attempt |-> 0,         \* attempt number of the next invocation
                 elapsed_time |-> 0,    \* time since execute_request was entered
                 waits |-> 0,           \* wait_if_needed calls of the rate limiter
                 invocations |-> <<>>,  \* outcome of every invocation of the callable
                 sleeps |-> <<>>,       \* the delays slept between invocations
                 ret |-> "none"]        \* what the caller gets: a result or the failure

\* one iteration of execute_request: the rate limiter lets the call proceed,
\* the callable is invoked and takes some time; its result is returned, or its
\* failure is retried after the delay of the strategy, or it is propagated
ExecuteAttempt ==
    /\ net.fn = "execute_request"
    /\ net.pc = "attempt"
    /\ \E outcome \in {"ok", "raise"}, took \in 0..1 :
          LET elapsed_time == net.elapsed_time + took
              invoked == [net EXCEPT !.waits = net.waits + 1,
                                     !.invocations = Append(net.invocations, outcome),
                                     !.elapsed_time = elapsed_time]
              delay == get_delay(net.strategy, net.attempt)
          IN net' =
               IF outcome = "ok"
               THEN [invoked EXCEPT !.pc = "returned", !.ret = "result"]
               ELSE IF should_retry(net.strategy, net.attempt, elapsed_time)
               THEN [invoked EXCEPT !.sleeps = Append(net.sleeps, delay),
                                    !.elapsed_time = elapsed_time + delay,
                                    !.attempt = net.attempt + 1]
               ELSE [invoked EXCEPT !.pc = "raised", !.ret = "failure"]
    /\ UNCHANGED engine_vars

Epoch == 10           \* the reading of time.time() when a scenario starts
MaxClock == 4         \* time that passes between the calls of a rate limiter
MaxChecks == 2        \* can_proceed calls of the sliding window
MaxCalls == 3         \* calls of a rate limiter
MaxDelay == 2         \* RateLimiter.delay
MaxWindow == 2        \* window_size of the sliding window
MaxRequests == 2      \* max_requests of the sliding window

\* a limiter that blocks one unit short of the interval
time_to_sleep_short(delay, time_since_last) ==
    IF time_since_last < delay - 1 THEN delay - 1 - time_since_last ELSE 0

\* RateLimiter.wait: the time slept, 0 when
\* time_since_last < self.delay is false
time_to_sleep(delay, time_since_last) ==
    IF time_since_last < delay THEN delay - time_since_last ELSE 0

\* RateLimiter(delay) after construction: last_call = 0
InitRateLimiter ==
    /\ EngineIdle
    /\ \E delay \in 0..MaxDelay :
          net = [fn |-> "RateLimiter", pc |-> "idle", delay |-> delay,
                 now |-> Epoch,       \* the clock time.time() reads
                 last_call |-> 0,
                 started |-> <<>>,    \* current_time of every wait
                 slept |-> <<>>,      \* the time every wait asked time.sleep for
                 recorded |-> <<>>]   \* last_call as set by every wait

\* RateLimiter.wait(): time.sleep returns when the time asked for has passed
\* or later
LimiterWait ==
    /\ net.fn = "RateLimiter"
    /\ Len(net.recorded) < MaxCalls
    /\ \E over \in 0..1 :
          LET current_time == net.now
              time_since_last == current_time - net.last_call
              sleep == time_to_sleep(net.delay, time_since_last)
              woken == current_time + sleep + (IF sleep > 0 THEN over ELSE 0)
          IN net' = [net EXCEPT !.now = woken,
                                !.last_call = woken,
                                !.started = Append(net.started, current_time),
                                !.slept = Append(net.slept, sleep),
                                !.recorded = Append(net.recorded, woken)]
    /\ UNCHANGED engine_vars

\* a loop that waits on the limiter before the first attempt only
waits_before_first_only(attempt) == attempt = 0

\* self.rate_limiter.wait() is the first statement of every iteration of the
\* loop of _call_api_legacy
waits_before_request(attempt) == TRUE

\* the statuses the server answers the requests of this scenario with, and a
\* raised exception
LegacyAnswers ==
    {Response(st, FALSE, 0, <<>>, FALSE, "") : st \in HttpStatuses} \cup {RequestException}

\* a RetryableAPIClient in legacy mode: one RateLimiter(delay) for all its
\* calls of call_api
InitLegacyClient ==
    /\ EngineIdle
    /\ \E delay \in 0..(MaxDelay + 1), max_retries \in 0..MaxRetries :
          net = [fn |-> "call_api_legacy", pc |-> "loop",
                 max_retries |-> max_retries,
                 delay |-> delay,
                 now |-> Epoch,
                 last_call |-> 0,
                 attempt |-> 0,
                 requests |-> <<>>]   \* every HTTP request: its attempt, whether
                                      \* wait() came right before it, last_call
                                      \* before and after that wait, the time sent

\* one iteration of the loop of _call_api_legacy with its clock:
\* rate_limiter.wait(), the request, and on a transient answer with retries
\* left the backoff sleep of 2**attempt seconds; when the call is over the
\* next call_api of the client starts
LegacyAttempt ==
    /\ net.fn = "call_api_legacy"
    /\ Len(net.requests) < MaxCalls
    /\ \E over \in 0..1, took \in 0..1, answer \in LegacyAnswers :
          LET waits == waits_before_request(net.attempt)
              current_time == net.now
              sleep == IF waits
                       THEN time_to_sleep(net.delay, current_time - net.last_call)
                       ELSE 0
              woken == current_time + sleep + (IF sleep > 0 THEN over ELSE 0)
              recorded == IF waits THEN woken ELSE net.last_call
              retry == is_transient(answer) /\ retries_remain(net.attempt, net.max_retries)
              request == [attempt |-> net.attempt, waited |-> waits,
                          last_call |-> net.last_call, recorded |-> recorded,
                          sent |-> woken, answer |-> answer]
          IN net' = [net EXCEPT
                       !.last_call = recorded,
                       !.requests = Append(net.requests, request),
                       !.attempt = IF retry THEN net.attempt + 1 ELSE 0,
                       !.now = woken + took
                               + (IF retry THEN 2 * backoff(net.attempt) ELSE 0)]
    /\ UNCHANGED engine_vars

\* a timestamp that expires as soon as it is a full window old
is_live_mut(timestamp, now, window_size) == now - timestamp < window_size

\* a recorded timestamp still counts: it falls within [now - window_size, now]
is_live(timestamp, now, window_size) == now - timestamp <= window_size

\* the timestamps of the queue left after the stale ones are expired
live_timestamps(timestamps, now, window_size) ==
    SelectSeq(timestamps, LAMBDA ts : is_live(ts, now, window_size))

\* SlidingWindowRateLimit.can_proceed at the clock reading now
can_proceed(limiter, now) ==
    Len(live_timestamps(limiter.request_timestamps, now, limiter.window_size))
        < limiter.max_requests

\* SlidingWindowRateLimit(window_size, max_requests) after construction
InitSlidingWindow ==
    /\ EngineIdle
    /\ \E window_size \in 1..MaxWindow, max_requests \in 1..MaxRequests :
          net = [fn |-> "SlidingWindowRateLimit", pc |-> "idle",
                 window_size |-> window_size, max_requests |-> max_requests,
                 now |-> Epoch,
                 request_timestamps |-> <<>>,
                 checked |-> <<>>,    \* every can_proceed: the clock reading, the
                                      \* calls recorded before it, the answer
                 recorded |-> <<>>]   \* every timestamp wait_if_needed recorded

\* can_proceed(): the stale timestamps are expired, the answer is given
CanProceed ==
    /\ net.fn = "SlidingWindowRateLimit"
    /\ Len(net.checked) < MaxChecks
    /\ net' = [net EXCEPT
                 !.request_timestamps = live_timestamps(net.request_timestamps, net.now,
                                                        net.window_size),
                 !.checked = Append(net.checked, [now |-> net.now,
                                                  calls |-> Len(net.recorded),
                                                  allowed |-> can_proceed(net, net.now)])]
    /\ UNCHANGED engine_vars

\* wait_if_needed(): blocks until can_proceed holds, then records the call
WaitIfNeeded ==
    /\ net.fn = "SlidingWindowRateLimit"
    /\ Len(net.recorded) < MaxCalls
    /\ \E over \in 0..1 :
          LET allowed_at == CHOOSE t \in net.now..(net.now + net.window_size + 1) :
                               /\ can_proceed(net, t)
                               /\ \A u \in net.now..(t - 1) : ~can_proceed(net, u)
              woken == IF allowed_at > net.now THEN allowed_at + over ELSE net.now
          IN net' = [net EXCEPT
                       !.now = woken,
                       !.request_timestamps =
                           Append(live_timestamps(net.request_timestamps, woken,
                                                  net.window_size), woken),
                       !.recorded = Append(net.recorded, woken)]
    /\ UNCHANGED engine_vars

\* time passes between two calls of a rate limiter
Tick ==
    /\ net.fn \in {"RateLimiter", "SlidingWindowRateLimit"}
    /\ net.now < Epoch + MaxClock
    /\ net' = [net EXCEPT !.now = net.now + 1]
    /\ UNCHANGED engine_vars

InitControl ==
    InitStrategy \/ InitExecute \/ InitRateLimiter \/ InitSlidingWindow \/ InitLegacyClient

NextControl ==
    \/ AskStrategy
    \/ ExecuteAttempt
    \/ LimiterWait
    \/ LegacyAttempt
    \/ CanProceed
    \/ WaitIfNeeded
    \/ Tick

SpecControl == InitControl /\ [][NextControl]_vars

-----------------------------------------------------------------------------
(* Properties of the reconciliation engine (specification Spec).           *)

Srcs(records) == [k \in 1..Len(records) |-> records[k].src]
Ids(records) == [k \in 1..Len(records) |-> records[k].record_id]
Occurrences(seq, x) == Cardinality({k \in 1..Len(seq) : seq[k] = x})

\* a bitable policy has classified the local rows
Planned ==
    target_type = "bitable" /\ pc \in {"dispatch", "done"} /\ fields.success

\* the policy has asked for the field types and converted its rows: Clone
\* does so after its delete phase
RecordsMade == fields.types # Unread

Indexed == index_column # NoColumn

\* the IndexKey the engine computes for local row i
KeyOfRow(i) == get_index_value_hash(df[i], index_column)

\* local row i has an IndexKey that the RemoteIndex holds
InRemoteIndex(i) == KeyOfRow(i) # None /\ KeyOfRow(i) \in DOMAIN existing_index

EachRowOnce ==
    \A i \in 1..Len(df) :
        Occurrences(Srcs(toCreate), i) + Occurrences(Srcs(toUpdate), i) = 1

\* C1 as stated: under Full, Incremental and Overwrite with an index column,
\* toCreate and the source rows of toUpdate are together exactly the local
\* rows, each once.
C1_PartitionAllPolicies ==
    (Planned /\ Indexed /\ sync_mode \in {"full", "incremental", "overwrite"})
        => EachRowOnce

\* C1 amended: under Full and Overwrite toCreate and the source rows of
\* toUpdate are exactly the local rows, each once; under Incremental toCreate
\* holds exactly the local rows whose IndexKey is not in the RemoteIndex, each
\* once, and a matched row is in neither list.
C1_Partition ==
    (Planned /\ Indexed) =>
        /\ sync_mode \in {"full", "overwrite"} => EachRowOnce
        /\ sync_mode = "incremental" =>
              /\ toUpdate = <<>>
              /\ \A i \in 1..Len(df) :
                    Occurrences(Srcs(toCreate), i) = IF InRemoteIndex(i) THEN 0 ELSE 1

C1_Witness ==
    /\ Planned /\ Indexed
    /\ sync_mode = "incremental"
    /\ toCreate # <<>>
    /\ Len(toCreate) < Len(df)

\* C2: under Full with an index column a row is in toUpdate, with the
\* record_id the RemoteIndex holds for its IndexKey, exactly when its IndexKey
\* is in the RemoteIndex; every other row is in toCreate; no delete is ever
\* issued.  Index values 1..5 against remote records for 1 and 3 give
\* toUpdate = {1,3}, toCreate = {2,4,5}, toDelete empty.
C2_FullClassification ==
    (Planned /\ Indexed /\ sync_mode = "full") =>
        /\ \A i \in 1..Len(df) :
              IF InRemoteIndex(i)
              THEN /\ Occurrences(Srcs(toUpdate), i) = 1
                   /\ Occurrences(Srcs(toCreate), i) = 0
                   /\ \A k \in 1..Len(toUpdate) :
                         toUpdate[k].src = i =>
                            toUpdate[k].record_id = existing_index[KeyOfRow(i)].record_id
              ELSE /\ Occurrences(Srcs(toUpdate), i) = 0
                   /\ Occurrences(Srcs(toCreate), i) = 1
        /\ toDelete = <<>>
        /\ \A k \in 1..Len(calls) : calls[k].op # "delete"
        /\ (/\ run = 1
            /\ df = <<IntV("1"), IntV("2"), IntV("3"), IntV("4"), IntV("5")>>
            /\ calls[1].batch = <<[record_id |-> 1, f |-> StrV("1")],
                                  [record_id |-> 2, f |-> StrV("3")]>>) =>
              /\ Srcs(toUpdate) = <<1, 3>>
              /\ Ids(toUpdate) = <<1, 2>>
              /\ Srcs(toCreate) = <<2, 4, 5>>

C2_Witness ==
    /\ Planned /\ Indexed /\ sync_mode = "full" /\ run = 1
    /\ Len(df) = 5
    /\ Srcs(toUpdate) = <<1, 3>>
    /\ Srcs(toCreate) = <<2, 4, 5>>
    /\ pc = "done"

\* the local rows, in order, whose IndexKey is not in the RemoteIndex
UnmatchedRows == SelectSeq(Positions(Len(df)), LAMBDA i : ~InRemoteIndex(i))

\* C3: under Incremental with an index column toCreate is the subsequence, in
\* local order, of the rows whose IndexKey is absent from the RemoteIndex;
\* matched rows cause no remote call; no update and no delete is issued; and
\* with an empty toCreate the sync issues no write and reports success.
C3_IncrementalPlan ==
    (Planned /\ Indexed /\ sync_mode = "incremental") =>
        /\ Srcs(toCreate) = UnmatchedRows
        /\ toUpdate = <<>>
        /\ toDelete = <<>>
        /\ \A k \in 1..Len(calls) :
              /\ calls[k].op \in {"read", "create"}
              /\ calls[k].op = "create" =>
                    \A j \in 1..Len(calls[k].batch) : ~InRemoteIndex(calls[k].batch[j].src)
        /\ (pc = "done" /\ toCreate = <<>>) =>
              /\ result = TRUE
              /\ \A k \in 1..Len(calls) : calls[k].op = "read"

C3_Witness ==
    /\ Planned /\ Indexed /\ sync_mode = "incremental"
    /\ pc = "done"
    /\ Len(df) = 2
    /\ InRemoteIndex(1) /\ ~InRemoteIndex(2)
    /\ Len(calls) = 2

\* the remote records the run read
RecordsRead == IF calls # <<>> /\ calls[1].op = "read" THEN calls[1].batch ELSE <<>>

\* the IndexKey build_record_index computes for a remote record
KeyOfRecord(r) == Md5(PyStr(r.f))

SameKeyAsSomeRow(r) ==
    /\ r.f # Absent
    /\ \E i \in 1..Len(df) : KeyOfRow(i) = KeyOfRecord(r)

\* C4 as stated: under Overwrite toCreate is the full list of local rows in
\* local order, and toDelete holds every remote record whose IndexKey equals
\* the IndexKey of some local row, and no other record.
C4_DeletesEveryMatch ==
    (Planned /\ Indexed /\ sync_mode = "overwrite") =>
        /\ Srcs(toCreate) = Positions(Len(df))
        /\ \A k \in 1..Len(RecordsRead) :
              SameKeyAsSomeRow(RecordsRead[k]) <=>
                 (\E j \in 1..Len(toDelete) : toDelete[j] = RecordsRead[k].record_id)

\* C4 amended: under Overwrite toCreate is the full list of local rows in
\* local order, and toDelete holds, for every local row whose IndexKey is in
\* the RemoteIndex, the record the RemoteIndex holds for that key (the last
\* remote record with that key) and nothing else: an earlier remote record
\* with the same key is not deleted.
C4_OverwritePlan ==
    (Planned /\ Indexed /\ sync_mode = "overwrite") =>
        /\ Srcs(toCreate) = Positions(Len(df))
        /\ \A k \in 1..Len(RecordsRead) :
              (\E j \in 1..Len(toDelete) : toDelete[j] = RecordsRead[k].record_id)
                 <=> /\ SameKeyAsSomeRow(RecordsRead[k])
                     /\ \A m \in (k + 1)..Len(RecordsRead) :
                           RecordsRead[m].f = Absent
                              \/ KeyOfRecord(RecordsRead[m]) # KeyOfRecord(RecordsRead[k])
        /\ \A j \in 1..Len(toDelete) :
              \E k \in 1..Len(RecordsRead) : RecordsRead[k].record_id = toDelete[j]

C4_Witness ==
    /\ Planned /\ Indexed /\ sync_mode = "overwrite"
    /\ Len(RecordsRead) = 2
    /\ KeyOfRecord(RecordsRead[1]) = KeyOfRecord(RecordsRead[2])
    /\ toDelete = <<2>>
    /\ Len(toCreate) = 2

\* C5: under Clone toDelete is the identifier of every remote record read and
\* toCreate is every local row, with or without an index column and whatever
\* the index values (10 remote records and 7 local rows give 10 deletes and 7
\* creates).  The policy makes toCreate when its delete phase is over.
C5_ClonePlan ==
    (Planned /\ sync_mode = "clone") =>
        /\ toDelete = Ids(RecordsRead)
        /\ Len(calls) = 1 => RecordsRead = remote
        /\ RecordsMade => Srcs(toCreate) = Positions(Len(df))
        /\ pc = "done" => RecordsMade
        /\ toUpdate = <<>>

C5_Witness ==
    /\ Planned /\ sync_mode = "clone" /\ Indexed
    /\ run = 1
    /\ Len(df) = 7
    /\ Len(toDelete) = 10
    /\ Len(toCreate) = 7
    /\ pc = "done" /\ result = TRUE
    /\ Len(remote) = 7

\* the local row item j of call c carries
CallRow(c, j) == IF c.op = "create" THEN c.batch[j].src ELSE c.batch[j]

\* how often local row i was sent by a call of one of the operations ops
SentCount(i, ops) ==
    Cardinality({kj \in (1..Len(calls)) \X (1..(Len(df) + 1)) :
                    /\ calls[kj[1]].op \in ops
                    /\ kj[2] <= Len(calls[kj[1]].batch)
                    /\ CallRow(calls[kj[1]], kj[2]) = i})

\* every request of the run was answered with success, those of the field
\* check included
AllCallsOk ==
    /\ \A k \in 1..Len(calls) : calls[k].ok
    /\ \A k \in 1..Len(fields.calls) : fields.calls[k].ok

\* sync is over: it returned or it raised
RunOver == pc \in {"done", "raised"}

\* the policy was entered: in bitable mode the field check let the sync go on
PolicyEntered == target_type = "bitable" => fields.success

PureAppend ==
    /\ \A k \in 1..Len(calls) : calls[k].op \notin {"update", "delete"}
    /\ (RunOver /\ PolicyEntered /\ AllCallsOk) =>
          /\ \A i \in 1..Len(df) : SentCount(i, {"create"}) = 1
          /\ pc = "done" /\ result = TRUE

\* C6: without an index column a Full or Incremental sync is a pure append
\* for both target types: every local row is sent as a create/append, no
\* update, delete or clear is issued, and the run is not an error merely
\* because the index column is missing.
C6_PureAppendBothTargets ==
    (~Indexed /\ sync_mode \in {"full", "incremental"}) => PureAppend

\* the plan of a second Full run made after a first Full run that succeeded
SecondFullRun ==
    /\ Planned /\ Indexed /\ sync_mode = "full"
    /\ run = 2
    /\ history[1].result = TRUE

\* every local row has an index value that is not null
AllRowsKeyed == \A i \in 1..Len(df) : df[i] # Absent /\ df[i].t # "nan"

\* C7: Full sync is idempotent: after a Full sync that ran to success against
\* a remote store that applies its creates and updates, a second Full sync of
\* the same local rows plans an empty toCreate and a toUpdate whose source
\* rows are all the local rows; stated here for the local data sets whose
\* rows all have a non-null index value, duplicated values included.
C7_IdempotentKeyedRows ==
    (SecondFullRun /\ AllRowsKeyed) =>
        /\ toCreate = <<>>
        /\ Srcs(toUpdate) = Positions(Len(df))

\* local row i has no IndexKey by the data model: no index column is
\* configured, the row has no such column, or its index value is null
NoIndexKey(i) == ~Indexed \/ df[i] = Absent \/ df[i].t = "nan"

\* C8: a local row yields no IndexKey when no index column is configured,
\* when it has no such column, or when its index value is null; such a row is
\* never matched against the RemoteIndex and is always planned as a create.
C8_NullRowsAreNew ==
    (Planned /\ sync_mode = "full") =>
        \A i \in 1..Len(df) :
            NoIndexKey(i) =>
                /\ KeyOfRow(i) = None
                /\ Occurrences(Srcs(toUpdate), i) = 0
                /\ Occurrences(Srcs(toCreate), i) = 1

\* C9: build_record_index keys a remote record whose index field comes in
\* rich-text list form [{text: v, type: text}] by the digest of v, the
\* IndexKey get_index_value_hash computes for a local row with the plain
\* string v.
C9_RichTextKey ==
    (Planned /\ Indexed /\ sync_mode # "clone") =>
        \A k \in 1..Len(RecordsRead) :
            RecordsRead[k].f.t = "rich" =>
                LET key == get_index_value_hash(StrV(RecordsRead[k].f.s), index_column)
                IN /\ key \in DOMAIN existing_index
                   /\ existing_index[key].f.s = RecordsRead[k].f.s

-----------------------------------------------------------------------------
(* Properties of the transport (specification SpecTransport).              *)

\* every chunk of the running sheet send: written, waiting on the stack of
\* the auto-split, or not yet handed to it
SheetChunks ==
    IF tp = NoTransport THEN {}
    ELSE {tp.log[k].chunk : k \in 1..Len(tp.log)}
         \cup {tp.stack[k].chunk : k \in 1..Len(tp.stack)}
         \cup {tp.chunks[k] : k \in 1..Len(tp.chunks)}

\* every batch process_in_batches has passed to create, update or delete has
\* at most min(batch_size, limit) items, the limit being 1000 for create and
\* update and 500 for delete
BatchesBounded ==
    \A k \in 1..Len(calls) :
        /\ calls[k].op \in {"create", "update"} =>
              Len(calls[k].batch) <= batch_size /\ Len(calls[k].batch) <= 1000
        /\ calls[k].op = "delete" =>
              Len(calls[k].batch) <= batch_size /\ Len(calls[k].batch) <= 500

C10_WitnessBitable ==
    /\ batch_size > 1000
    /\ pc = "done"
    /\ \E k \in 1..Len(calls) : calls[k].op = "delete" /\ Len(calls[k].batch) = 500
    /\ \E k \in 1..Len(calls) : calls[k].op = "create" /\ Len(calls[k].batch) = 1000

\* a chunked upload wider and longer than its batch sizes, ended after a
\* bisection
C10_WitnessUpload ==
    /\ tp # NoTransport /\ tp.kind = "upload" /\ pc = "done"
    /\ tp.values # <<>>
    /\ Len(tp.values[1]) > tp.col_batch_size
    /\ Len(tp.values) > tp.row_batch_size
    /\ tp.splits > 0

CeilLog2(n) == CHOOSE k \in 0..n : 2 ^ k >= n /\ (k = 0 \/ 2 ^ (k - 1) < n)

\* a sheet send is running
SheetSending == tp # NoTransport /\ pc \in {"chunking", "sending"}

\* every write of the sheet send so far was answered with success or with
\* the oversized code
OnlyOkOrOversized ==
    \A k \in 1..Len(tp.log) : tp.log[k].outcome \in {"ok", "oversized"}

C12_DepthAndResult ==
    (tp # NoTransport /\ OnlyOkOrOversized) =>
        /\ \A k \in 1..Len(tp.log) : tp.log[k].depth <= CeilLog2(tp.log[k].root)
        /\ \A k \in 1..Len(tp.stack) : tp.stack[k].depth <= CeilLog2(tp.stack[k].root)
        /\ pc = "done" =>
              (result = FALSE <=>
                  \E k \in 1..Len(tp.log) :
                      /\ tp.log[k].outcome = "oversized"
                      /\ Len(tp.log[k].chunk.data) = 1)

\* C12: for a chunk of n >= 1 rows whose writes are answered only with success
\* or oversized, the auto-split upload terminates, never recurses deeper than
\* ceil(log2(n)) levels, and returns failure exactly when some 1-row chunk was
\* rejected as oversized (otherwise it returns success).
C12_AutoSplit ==
    /\ []C12_DepthAndResult
    /\ SheetSending ~> (pc = "done")

C12_Witness ==
    /\ tp # NoTransport /\ tp.kind = "upload"
    /\ OnlyOkOrOversized
    /\ pc = "done" /\ result = FALSE
    /\ \E k \in 1..Len(tp.log) :
          /\ tp.log[k].root = 4
          /\ tp.log[k].depth = 2
          /\ tp.log[k].outcome = "oversized"
    /\ \E k \in 1..Len(tp.log) : tp.log[k].depth = 2 /\ tp.log[k].outcome = "ok"

\* the writes of the sheet send that were answered with the given outcome
Writes(outcome) == SelectSeq(tp.log, LAMBDA w : w.outcome = outcome)

RECURSIVE RowsOf(_)
RowsOf(writes) ==
    IF writes = <<>> THEN 0 ELSE Len(Head(writes).chunk.data) + RowsOf(Tail(writes))

\* the scenario of C13: the send of a 1000-row chunk is over; the chunk was
\* rejected as oversized, exactly one 500-row half was rejected as oversized
\* too, and every other write succeeded
SplitTwice ==
    /\ tp # NoTransport /\ pc = "done"
    /\ tp.log # <<>>
    /\ Len(tp.log[1].chunk.data) = 1000 /\ tp.log[1].outcome = "oversized"
    /\ Len(Writes("oversized")) = 2
    /\ Len(Writes("oversized")[2].chunk.data) = 500
    /\ Writes("other") = <<>>

\* C13 as stated: in that scenario the upload records exactly 3 bisection
\* events and exactly 4 successful network calls.
C13_ThreeBisections ==
    SplitTwice => (tp.splits = 3 /\ Len(Writes("ok")) = 4)

\* C13 amended: in that scenario the upload makes exactly 2 bisections (one
\* per oversized answer) and exactly 3 successful network calls, of 250, 250
\* and 500 rows, out of 5 requests; the upload returns success.
C13_TwoBisections ==
    SplitTwice =>
        /\ tp.splits = 2
        /\ Len(Writes("ok")) = 3
        /\ RowsOf(Writes("ok")) = 1000
        /\ \A k \in 1..3 : Len(Writes("ok")[k].chunk.data) \in {250, 500}
        /\ Len(tp.log) = 5
        /\ result = TRUE

C13_Witness ==
    /\ SplitTwice
    /\ Len(tp.log[2].chunk.data) = 500 /\ tp.log[2].outcome = "ok"
    /\ Len(tp.log[3].chunk.data) = 500 /\ tp.log[3].outcome = "oversized"
    /\ Len(tp.log[5].chunk.data) = 250 /\ tp.log[5].outcome = "ok"

\* the batch requests of the bitable sends that the remote rejected as
\* oversized although they carry more than one item
OversizedBatches ==
    {k \in 1..Len(calls) :
        /\ calls[k].op \in {"create", "update", "delete"}
        /\ calls[k].outcome = "oversized"
        /\ Len(calls[k].batch) > 1}

\* the request k was followed by the dispatch of its two halves
HalvesDispatched(k) ==
    LET batch == calls[k].batch
        mid_point == Len(batch) \div 2
    IN \E i, j \in (k + 1)..Len(calls) :
          /\ i < j
          /\ calls[i].op = calls[k].op /\ calls[j].op = calls[k].op
          /\ calls[i].batch = SubSeq(batch, 1, mid_point)
          /\ calls[j].batch = SubSeq(batch, mid_point + 1, Len(batch))

\* C14: for every operation type, a chunk of more than one item that the
\* remote rejects with the oversized-payload code is split into two halves
\* that are each dispatched, and is never reported as a plain failed chunk:
\* when a bitable run is over, every such batch of a create, update or delete
\* send has had its halves dispatched and has not made its send fail.
C14_OversizedIsBisected ==
    (target_type = "bitable" /\ pc = "done") =>
        \A k \in OversizedBatches :
            /\ HalvesDispatched(k)
            /\ results[calls[k].op] = TRUE

\* the number of writes of the sheet send that were bisected: the oversized
\* rejections of chunks of more than one row
Bisected ==
    Len(SelectSeq(tp.log, LAMBDA w : w.outcome = "oversized" /\ Len(w.chunk.data) > 1))

\* C15: a chunk write that fails with anything other than the oversized
\* code is never bisected and ends the send: it is the last write of the
\* send (neither a sub-chunk of it, nor its pending sibling half, nor a later
\* chunk is dispatched), only the oversized rejections were bisected, nothing
\* is left pending, and the send returns failure.
C15_OtherFailureStops ==
    tp # NoTransport =>
        \A k \in 1..Len(tp.log) :
            tp.log[k].outcome = "other" =>
                /\ k = Len(tp.log)
                /\ tp.splits = Bisected
                /\ tp.stack = <<>> /\ tp.chunks = <<>>
                /\ pc = "done" /\ result = FALSE

\* the first half of a bisected chunk fails with another code while its
\* sibling half and a later initial chunk were still to be written
C15_Witness ==
    /\ tp # NoTransport /\ pc = "done"
    /\ Len(tp.log) >= 2
    /\ tp.log[Len(tp.log)].outcome = "other"
    /\ tp.log[Len(tp.log)].depth = 1
    /\ tp.log[Len(tp.log) - 1].outcome = "oversized"
    /\ tp.log[Len(tp.log) - 1].depth = 0
    /\ Len(tp.log[Len(tp.log)].chunk.data) > 1
    /\ Len(create_data_chunks(tp.values, tp.row_batch_size, chunk_cols(tp))) > 1
    /\ Len(tp.log) = 2

-----------------------------------------------------------------------------
(* Properties of the API client (specification SpecClient).                *)

\* the HTTP requests of the call, in order
Requests == SelectSeq(net.events, LAMBDA ev : ev.e = "request")

\* the call is over: it returned or raised
CallOver == net.pc \in {"returned", "raised"}

\* C11: batch_create_records, batch_update_records and batch_delete_records
\* called with more items than their maximum (1000, 1000, 500) return failure
\* without any network request and without acquiring anything from the
\* remote (no auth headers are fetched); with at most the maximum they fetch
\* the headers and issue the request.
C11_LocalLimit ==
    (net.fn \in BatchFunctions /\ net.pc # "api") =>
        LET maximum == IF net.fn = "batch_delete_records" THEN 500 ELSE 1000
        IN IF net.n > maximum
           THEN /\ net.pc = "returned"
                /\ net.ret = FALSE
                /\ Requests = <<>>
                /\ net.auth = 0
                /\ net.api_calls = 0
           ELSE /\ net.auth = 1
                /\ net.pc # "biz" => net.api_calls >= 1
                /\ CallOver => Requests # <<>>

C11_Witness ==
    /\ net.fn = "batch_delete_records"
    /\ net.n = 501
    /\ net.pc = "returned"
    /\ net.ret = FALSE
    /\ Requests = <<>>

\* the pages the server delivered to the read: the requests answered with a
\* parsable body of code 0, in request order
PagesReceived ==
    SelectSeq(Requests, LAMBDA ev : ev.answer.kind = "response" /\ ev.answer.json
                                     /\ ev.answer.code = 0)

\* the next page token search_records reads off a page ("" for None)
NextTokenOf(ev) == IF ev.answer.has_more THEN ev.answer.page_token ELSE ""

RECURSIVE Concatenation(_)
Concatenation(evs) ==
    IF evs = <<>> THEN <<>> ELSE Head(evs).answer.items \o Concatenation(Tail(evs))

\* C16: get_all_records requests pages until a page carries no next page
\* token: when it returns normally, the last page it received carries no next
\* page token, every earlier page carried one and was followed by the request
\* of that token, and the result is the concatenation, in request order, of
\* the records of every page received, each page once.
C16_AllPages ==
    (net.fn = "get_all_records" /\ net.pc = "returned") =>
        LET received == PagesReceived
            n == Len(received)
        IN /\ n >= 1
           /\ NextTokenOf(received[n]) = ""
           /\ \A k \in 1..(n - 1) : NextTokenOf(received[k]) # ""
                                    /\ received[k + 1].token = NextTokenOf(received[k])
           /\ received[1].token = ""
           /\ net.all_records = Concatenation(received)
           /\ Len(net.all_records) = n * net.page_size
           /\ net.page_num = n

\* a read of three non-empty pages, one request of which was retried
C16_Witness ==
    /\ net.fn = "get_all_records" /\ net.pc = "returned"
    /\ Len(PagesReceived) = MaxPages
    /\ Len(Requests) > MaxPages
    /\ net.page_size > 0
    /\ Len(net.all_records) = MaxPages * net.page_size

\* the received page k of the read carries a next page token that an earlier
\* page of the same read carried already
RepeatsToken(k) ==
    /\ NextTokenOf(PagesReceived[k]) # ""
    /\ \E j \in 1..(k - 1) : NextTokenOf(PagesReceived[j]) = NextTokenOf(PagesReceived[k])

\* the guard of get_all_records: the pages received were requested with
\* pairwise different page tokens, and a page that repeats a next page token
\* is the last answer of the read, which raises
C17_NoTokenTwice ==
    net.fn = "get_all_records" =>
        /\ \A j, k \in 1..Len(PagesReceived) :
              j # k => PagesReceived[j].token # PagesReceived[k].token
        /\ \A k \in 1..Len(PagesReceived) :
              RepeatsToken(k) =>
                  /\ k = Len(PagesReceived)
                  /\ Requests[Len(Requests)] = PagesReceived[k]
                  /\ net.pc \in {"api_return", "biz_return", "raised"}
                  /\ net.pc = "raised" \/ net.response = PagesReceived[k].answer

\* C17: get_all_records terminates on every server behaviour whose page
\* tokens come from a finite set: a next page token the server returned
\* earlier in the same read makes the read raise instead of continuing, no
\* page token is requested twice, and every read ends, by a return or a raise.
C17_Terminates ==
    /\ []C17_NoTokenTwice
    /\ (net.fn = "get_all_records") ~> CallOver

\* a read that raised because its third page repeated the token of its first
C17_Witness ==
    /\ net.fn = "get_all_records" /\ net.pc = "raised"
    /\ Len(PagesReceived) = 3
    /\ RepeatsToken(3)
    /\ NextTokenOf(PagesReceived[3]) = NextTokenOf(PagesReceived[1])

\* an HTTP answer with a 4xx status other than 429
ClientError(answer) ==
    answer.kind = "response" /\ answer.status \in 400..499 /\ answer.status # 429

\* an HTTP answer call_api hands on whose body carries a business code that
\* is not retryable: a listed permanent code or an unknown non-zero code
PermanentCode(answer) ==
    /\ answer.kind = "response" /\ answer.status \in {200, 400}
    /\ answer.json /\ answer.code # 0 /\ answer.code \notin RETRYABLE_BIZ_CODES

\* C18: a non-transient failure is never retried even if retries remain. A
\* response with a 4xx status other than 429 is the last request of call_api,
\* which returns it (after exactly one request when it answers the first);
\* a response whose business code is not retryable is the last request of
\* _call_api_with_biz_retry, which returns it (after exactly one call_api
\* invocation when it answers the first request).
C18_NoRetryOfPermanent ==
    /\ net.fn = "call_api" =>
          \A k \in 1..Len(Requests) :
              ClientError(Requests[k].answer) =>
                  /\ k = Len(Requests)
                  /\ net.pc = "returned"
                  /\ net.response = Requests[k].answer
                  /\ net.events[Len(net.events)] = Requests[k]
                  /\ k = net.attempt + 1
    /\ net.fn = "call_api_with_biz_retry" =>
          \A k \in 1..Len(Requests) :
              PermanentCode(Requests[k].answer) =>
                  /\ k = Len(Requests)
                  /\ net.pc \in {"biz_return", "returned"}
                  /\ net.response = Requests[k].answer
                  /\ net.events[Len(net.events)] = Requests[k]
                  /\ k = 1 => net.api_calls = 1

\* a first answer with an unknown business code is returned although both
\* retry loops had retries left
C18_Witness ==
    /\ net.fn = "call_api_with_biz_retry" /\ net.pc = "returned"
    /\ net.max_retries > 0
    /\ Len(Requests) = 1
    /\ Requests[1].answer.code = 1254999
    /\ net.response.code = 1254999
    /\ net.api_calls = 1 /\ net.biz_attempt = 0 /\ net.biz_attempt < BIZ_MAX_RETRIES

\* a first answer of HTTP 400 is returned by call_api although retries remain
C18_WitnessHttp ==
    /\ net.fn = "call_api" /\ net.pc = "returned"
    /\ net.max_retries > 0
    /\ Len(Requests) = 1
    /\ net.response.status = 400

\* the sleeps of the call so far, in order
Sleeps == SelectSeq(net.events, LAMBDA ev : ev.e = "sleep")

\* a transient failure in the words of C19: HTTP 429, HTTP 5xx, or a raised
\* request exception
TransientFailure(answer) ==
    \/ answer.kind = "exception"
    \/ answer.kind = "response" /\ answer.status \in {429} \cup 500..599

\* the first k requests of the call failed transiently
TransientUpTo(k) == \A j \in 1..k : TransientFailure(Requests[j].answer)

\* C19: if the first k attempts of one call_api call fail transiently (HTTP
\* 429, a status of 500 and above, or a raised request exception) with
\* k <= max_retries and attempt k+1 is answered with a non-retryable response,
\* call_api returns that response after exactly k+1 HTTP requests, having
\* slept 2^0 .. 2^(k-1) between them, and raises nothing; none of the first
\* max_retries attempts ends the call by failing transiently.
C19_TransientFailuresHidden ==
    net.fn = "call_api" =>
      /\ \A k \in 1..net.max_retries :
            (Len(Requests) = k /\ TransientFailure(Requests[k].answer)) => ~CallOver
      /\ \A k \in 0..net.max_retries :
            (/\ Len(Requests) > k
             /\ TransientUpTo(k)
             /\ ~TransientFailure(Requests[k + 1].answer)) =>
                /\ Len(Requests) = k + 1
                /\ net.pc = "returned"
                /\ net.response = Requests[k + 1].answer
                /\ Len(Sleeps) = k
                /\ \A j \in 1..k : Sleeps[j].t = 2 ^ (j - 1)

\* max_retries transient failures of all three kinds, then a success
C19_Witness ==
    /\ net.fn = "call_api" /\ net.pc = "returned"
    /\ net.max_retries = MaxRetries
    /\ Len(Requests) = MaxRetries + 1
    /\ TransientUpTo(MaxRetries)
    /\ Requests[1].answer.kind = "exception"
    /\ Requests[2].answer.kind = "response" /\ Requests[2].answer.status \in {429, 500}
    /\ net.response.status = 200 /\ net.response.json /\ net.response.code = 0

\* every request of the call so far was answered with HTTP 429 or 5xx
OnlyServerErrors ==
    \A j \in 1..Len(Requests) :
        /\ Requests[j].answer.kind = "response"
        /\ Requests[j].answer.status = 429 \/ Requests[j].answer.status >= 500

\* C20: when every attempt of a legacy call_api call is answered with HTTP
\* 5xx or 429, the client issues exactly max_retries + 1 HTTP requests (the
\* initial call plus max_retries retries) and then returns the last failing
\* response to the caller instead of raising.
C20_RetriesExhausted ==
    (net.fn = "call_api" /\ OnlyServerErrors) =>
        /\ Len(Requests) <= net.max_retries + 1
        /\ net.pc # "raised"
        /\ Len(Requests) = net.max_retries + 1 =>
              /\ net.pc = "returned"
              /\ net.response = Requests[net.max_retries + 1].answer
              /\ Len(Sleeps) = net.max_retries
        /\ Len(Requests) \in 1..net.max_retries => net.pc = "http"
        /\ net.pc = "returned" => Len(Requests) = net.max_retries + 1

\* MaxRetries + 1 requests answered 500 and 429, the last answer returned
C20_Witness ==
    /\ net.fn = "call_api" /\ net.pc = "returned"
    /\ net.max_retries = MaxRetries
    /\ Len(Requests) = MaxRetries + 1
    /\ OnlyServerErrors
    /\ net.response.status = 500
    /\ Requests[1].answer.status = 429

\* every request of the call so far raised a request exception
OnlyExceptions ==
    \A j \in 1..Len(Requests) : Requests[j].answer.kind = "exception"

\* C21: when every attempt of a legacy call_api call raises a request
\* exception, the exception of the last attempt is re-raised to the caller
\* after exactly max_retries + 1 HTTP requests; it is never swallowed and
\* never replaced by a returned response.
C21_ExceptionReraised ==
    (net.fn = "call_api" /\ OnlyExceptions) =>
        /\ Len(Requests) <= net.max_retries + 1
        /\ net.pc # "returned"
        /\ net.response = NoResponse
        /\ Len(Requests) = net.max_retries + 1 =>
              /\ net.pc = "raised"
              /\ Len(Sleeps) = net.max_retries
              /\ net.events[Len(net.events)] = Requests[net.max_retries + 1]
        /\ Len(Requests) \in 1..net.max_retries => net.pc = "http"
        /\ net.pc = "raised" => Len(Requests) = net.max_retries + 1

\* MaxRetries + 1 requests that all raised, the call raising in the end
C21_Witness ==
    /\ net.fn = "call_api" /\ net.pc = "raised"
    /\ net.max_retries = MaxRetries
    /\ Len(Requests) = MaxRetries + 1
    /\ OnlyExceptions

-----------------------------------------------------------------------------
(* Properties of the request controller (specification SpecControl).       *)

\* the retry strategy, in the words of the claims: another attempt is allowed
\* after the attempt numbered a, elapsed the time passed
Allows(strategy, a, elapsed) ==
    /\ a < strategy.max_retries
    /\ strategy.max_wait_time = NoMaxWait \/ elapsed < strategy.max_wait_time

\* C26: should_retry(attempt, elapsed_time) is true exactly when
\* attempt < max_retries and, if max_wait_time is configured,
\* elapsed_time < max_wait_time; it is false from attempt = max_retries on
\* and from elapsed_time = max_wait_time on.
C26_ShouldRetry ==
    (net.fn = "retry_strategy" /\ net.pc = "returned") =>
        /\ net.retry <=> Allows(net.strategy, net.attempt, net.elapsed_time)
        /\ net.attempt >= net.strategy.max_retries => ~net.retry
        /\ (net.strategy.max_wait_time # NoMaxWait
            /\ net.elapsed_time >= net.strategy.max_wait_time) => ~net.retry

\* the boundary of the elapsed time: refused at exactly max_wait_time with
\* attempts left
C26_Witness ==
    /\ net.fn = "retry_strategy" /\ net.pc = "returned"
    /\ net.strategy.max_wait_time = 10 /\ net.elapsed_time = 10
    /\ net.attempt = 0 /\ net.strategy.max_retries = MaxRetries
    /\ ~net.retry

\* the boundary of the attempts: refused at attempt = max_retries, allowed
\* one attempt earlier, which the same strategy shows at elapsed time 9
C26_WitnessAttempt ==
    /\ net.fn = "retry_strategy" /\ net.pc = "returned"
    /\ net.attempt = net.strategy.max_retries /\ net.attempt > 0
    /\ net.strategy.max_wait_time = 10 /\ net.elapsed_time = 9
    /\ ~net.retry
    /\ should_retry(net.strategy, net.attempt - 1, net.elapsed_time)

\* min(delay, cap), the cap applying only when max_wait_time is configured
UpTo(delay, strategy) ==
    IF strategy.max_wait_time # NoMaxWait /\ strategy.max_wait_time < delay
    THEN strategy.max_wait_time
    ELSE delay

\* the delays of the attempts 0 .. n-1 under the strategy
Delays(strategy, n) == [a \in 1..n |-> get_delay(strategy, a - 1)]

\* C25: the retry delay for attempt a is min(initial * multiplier^a, cap) for
\* exponential backoff, min(initial + increment * a, cap) for linear growth,
\* and initial for fixed wait, the cap applying only when max_wait_time is
\* configured. In units of half a second: Exponential(initial 2, multiplier
\* 2, cap 10) gives 2,4,8,10,10; Linear(initial 2, increment 1) gives
\* 2,3,4,5; Fixed(initial 2) gives 2,2,2.
C25_Delay ==
    (net.fn = "retry_strategy" /\ net.pc = "returned") =>
        /\ net.strategy.kind = "exponential_backoff" =>
              net.delay = UpTo(net.strategy.initial_delay
                                   * net.strategy.multiplier ^ net.attempt, net.strategy)
        /\ net.strategy.kind = "linear_growth" =>
              net.delay = UpTo(net.strategy.initial_delay
                                   + net.strategy.increment * net.attempt, net.strategy)
        /\ net.strategy.kind = "fixed_wait" => net.delay = net.strategy.initial_delay
        /\ Delays(RetryStrategy("exponential_backoff", 2, 2, 5, 10), 5) = <<2, 4, 8, 10, 10>>
        /\ Delays(RetryStrategy("linear_growth", 2, 1, 5, NoMaxWait), 4) = <<2, 3, 4, 5>>
        /\ Delays(RetryStrategy("fixed_wait", 2, 0, 5, NoMaxWait), 3) = <<2, 2, 2>>

\* the cap binds: exponential backoff of a second, doubled three times, under
\* a cap of five seconds
C25_Witness ==
    /\ net.fn = "retry_strategy" /\ net.pc = "returned"
    /\ net.strategy.kind = "exponential_backoff"
    /\ net.strategy.initial_delay = 2 /\ net.strategy.multiplier = 2
    /\ net.strategy.max_wait_time = 10
    /\ net.attempt = 3
    /\ net.delay = 10

\* the first k invocations of the callable raised
RaisedUpTo(k) == \A j \in 1..k : net.invocations[j] = "raise"

\* C22: execute_request re-invokes the callable after each raised failure
\* for as long as the retry strategy allows another attempt and returns the
\* result of the first successful invocation; once the strategy says stop, the
\* callable's failure is propagated to the caller. Every invocation but the
\* last raised; after n failures with the call still running n delays were
\* slept; a returned call ends with its only success; a raised call has only
\* failures, the last of which the strategy allowed no retry for.
C22_ExecuteRequest ==
    net.fn = "execute_request" =>
        LET n == Len(net.invocations)
        IN /\ RaisedUpTo(n - 1)
           /\ n <= net.strategy.max_retries + 1
           /\ net.waits = n
           /\ net.pc = "attempt" =>
                 /\ RaisedUpTo(n)
                 /\ net.attempt = n /\ Len(net.sleeps) = n
                 /\ n > 0 => Allows(net.strategy, n - 1,
                                    net.elapsed_time - net.sleeps[n])
           /\ net.pc = "returned" =>
                 /\ n >= 1 /\ net.invocations[n] = "ok"
                 /\ net.ret = "result"
                 /\ Len(net.sleeps) = n - 1
           /\ net.pc = "raised" =>
                 /\ n >= 1 /\ RaisedUpTo(n)
                 /\ net.ret = "failure"
                 /\ ~Allows(net.strategy, n - 1, net.elapsed_time)

\* a callable that fails twice then succeeds under max_retries = 3 is invoked
\* exactly 3 times
C22_Witness ==
    /\ net.fn = "execute_request" /\ net.pc = "returned"
    /\ net.strategy.max_retries = 3
    /\ net.invocations = <<"raise", "raise", "ok">>
    /\ net.ret = "result"

\* an always failing callable under max_retries = 2 has its failure propagated
C22_WitnessStop ==
    /\ net.fn = "execute_request" /\ net.pc = "raised"
    /\ net.strategy.max_retries = 2 /\ net.strategy.max_wait_time = NoMaxWait
    /\ net.invocations = <<"raise", "raise", "raise">>

Max(a, b) == IF a >= b THEN a ELSE b

\* C23: for the fixed-wait rate limiter with interval d used by a single
\* thread of control, any two consecutive recorded calls are separated by at
\* least d: a wait that starts less than d after the previous recorded call
\* blocks for the remainder, and the first call and a call made at least d
\* after the previous one do not block.
C23_FixedWait ==
    net.fn = "RateLimiter" =>
        /\ \A k \in 2..Len(net.recorded) :
              /\ net.recorded[k] - net.recorded[k - 1] >= net.delay
              /\ net.slept[k] = Max(0, net.delay - (net.started[k] - net.recorded[k - 1]))
              /\ net.started[k] - net.recorded[k - 1] >= net.delay =>
                    /\ net.slept[k] = 0
                    /\ net.recorded[k] = net.started[k]
        /\ Len(net.recorded) >= 1 =>
              /\ net.slept[1] = 0
              /\ net.recorded[1] = net.started[1]
        /\ net.last_call = IF net.recorded = <<>> THEN 0
                           ELSE net.recorded[Len(net.recorded)]

\* three calls: the first does not block, the second starts one unit after it
\* and blocks for the remaining unit, the third starts later than the interval
\* and does not block
C23_Witness ==
    /\ net.fn = "RateLimiter"
    /\ net.delay = 2
    /\ Len(net.recorded) = 3
    /\ net.slept[1] = 0
    /\ net.started[2] - net.recorded[1] = 1 /\ net.slept[2] = 1
    /\ net.recorded[2] - net.recorded[1] = 2
    /\ net.started[3] - net.recorded[2] >= 2 /\ net.slept[3] = 0

\* the number of recorded calls whose timestamp lies in [from, to]
RecordedWithin(from, to) ==
    Cardinality({k \in 1..Len(net.recorded) :
                    net.recorded[k] >= from /\ net.recorded[k] <= to})

\* C24: for the sliding-window rate limiter with window W and limit
\* maxRequests, after any sequence of can_proceed / wait_if_needed calls no
\* time window of length W contains more than maxRequests recorded calls; a
\* call is allowed exactly when fewer than maxRequests recorded timestamps lie
\* within the last W, timestamps older than W being expired.
C24_SlidingWindow ==
    net.fn = "SlidingWindowRateLimit" =>
        /\ \A t \in Epoch..net.now :
              RecordedWithin(t, t + net.window_size) <= net.max_requests
        /\ can_proceed(net, net.now) <=>
              RecordedWithin(net.now - net.window_size, net.now) < net.max_requests
        /\ \A c \in 1..Len(net.checked) :
              net.checked[c].allowed <=>
                  Cardinality({k \in 1..net.checked[c].calls :
                                  net.checked[c].now - net.recorded[k] <= net.window_size})
                      < net.max_requests
        /\ \A k \in 1..Len(net.request_timestamps) :
              \E j \in 1..Len(net.recorded) : net.recorded[j] = net.request_timestamps[k]
        /\ \A k \in 1..Len(net.recorded) :
              net.now - net.recorded[k] <= net.window_size =>
                  \E j \in 1..Len(net.request_timestamps) :
                      net.request_timestamps[j] = net.recorded[k]

\* the limit was reached and a call had to wait until the oldest timestamp
\* was more than a window old; can_proceed was refused in between
C24_Witness ==
    /\ net.fn = "SlidingWindowRateLimit"
    /\ net.max_requests = 2 /\ net.window_size = 2
    /\ Len(net.recorded) = 3
    /\ net.recorded[1] = net.recorded[2]
    /\ net.recorded[3] = net.recorded[1] + 3
    /\ \E k \in 1..Len(net.checked) : ~net.checked[k].allowed
    /\ Len(net.request_timestamps) = 1

-----------------------------------------------------------------------------
(* Further properties of the reconciliation engine (specification Spec).   *)

\* the batch requests of the run so far, in order: the calls that write
WriteCalls == SelectSeq(calls, LAMBDA c : c.op \in {"create", "update", "delete"})

\* the batches a list of items is cut into by a batch size
BatchesOf(op, items) ==
    LET eff == IF get_operation_max_batch_size(op) # 0
                  /\ batch_size > get_operation_max_batch_size(op)
               THEN get_operation_max_batch_size(op) ELSE batch_size
        count == (Len(items) + eff - 1) \div eff
    IN [k \in 1..count |->
          [op |-> op,
           batch |-> SubSeq(items, (k - 1) * eff + 1, Min(k * eff, Len(items)))]]

\* the batches of the plan: the deletes, then the updates, then the creates
PlannedBatches ==
    BatchesOf("delete", toDelete) \o BatchesOf("update", toUpdate)
        \o BatchesOf("create", toCreate)

\* the sync was refused for its configuration before anything was planned
Refused == sync_mode = "overwrite" /\ index_column = NoColumn

\* C27 as stated: the result of a sync is true exactly when every batch of
\* every plan subset (delete, update, create) that was dispatched succeeded.
C27_ResultOfAnySync ==
    (target_type = "bitable" /\ pc = "done") =>
        (result <=> \A k \in 1..Len(WriteCalls) : WriteCalls[k].ok)

\* C27 amended: the result of a bitable sync whose field check succeeded and
\* that is not refused for its configuration is true exactly when every batch
\* of every plan subset (delete, update, create) that was dispatched
\* succeeded; batches that succeeded are never rolled back when a later batch
\* fails: the requests of the run are the batches of the plan, each once and
\* in order, whatever failed, and nothing else.  (A sync whose read of the
\* records raises returns nothing and dispatches nothing.)
C27_ResultIffAllBatchesOk ==
    (Planned /\ pc = "done" /\ ~Refused) =>
        /\ result <=> \A k \in 1..Len(WriteCalls) : WriteCalls[k].ok
        /\ Len(WriteCalls) = Len(PlannedBatches)
        /\ \A k \in 1..Len(WriteCalls) :
              /\ WriteCalls[k].op = PlannedBatches[k].op
              /\ WriteCalls[k].batch = PlannedBatches[k].batch

\* an overwrite whose request for the field types failed, whose delete batch
\* succeeded and whose create batch failed: the result is false, no request
\* follows
C27_Witness ==
    /\ Planned /\ pc = "done"
    /\ sync_mode = "overwrite"
    /\ Len(WriteCalls) = 2
    /\ WriteCalls[1].op = "delete" /\ WriteCalls[1].ok
    /\ WriteCalls[2].op = "create" /\ ~WriteCalls[2].ok
    /\ result = FALSE
    /\ fields.types = NoTypes /\ fields.missing = 0

-----------------------------------------------------------------------------
(* Further properties of the transport (specification SpecTransport).      *)

\* the rows and the first column of the payload a written chunk carries: a
\* cell of the value matrix holds its row and column numbers
FirstRow(w) == w.chunk.data[1][1][1]
LastRow(w) == w.chunk.data[Len(w.chunk.data)][1][1]
FirstCol(w) == w.chunk.data[1][1][2]

\* the write v carries cells that all come before those of the write w in the
\* order the payload was partitioned: column blocks first, rows within
Before(v, w) ==
    \/ FirstCol(v) < FirstCol(w)
    \/ FirstCol(v) = FirstCol(w) /\ LastRow(v) < FirstRow(w)

\* the write w carries a part of the chunk the write v was rejected with
SubChunkOf(w, v) ==
    /\ v.outcome = "oversized"
    /\ FirstCol(w) = FirstCol(v)
    /\ FirstRow(v) <= FirstRow(w) /\ LastRow(w) <= LastRow(v)
    /\ w.depth > v.depth

\* C28: within one send, chunks are dispatched one at a time in the order
\* the payload was partitioned, and after a bisection the first half is
\* dispatched (with all its own sub-chunks) before the second half, so the
\* rows of a payload reach the remote in their original relative order: of
\* two writes of a sheet send the later one carries a part of the chunk the
\* earlier was rejected with, or cells that all come after those of the
\* earlier; the batches of a bitable send are the consecutive slices of its
\* items, in order.
C28_DispatchOrder ==
    /\ tp # NoTransport =>
          \A i, j \in 1..Len(tp.log) :
              i < j => SubChunkOf(tp.log[j], tp.log[i]) \/ Before(tp.log[i], tp.log[j])
    /\ (tp = NoTransport /\ Planned /\ pc = "done" /\ ~Refused) =>
          /\ Len(WriteCalls) = Len(PlannedBatches)
          /\ \A k \in 1..Len(WriteCalls) : WriteCalls[k].batch = PlannedBatches[k].batch

\* a bitable send ended: the delete phase of several batches and the create
\* phase of several batches of a clone, every batch passed on in order
C28_WitnessBitable ==
    /\ tp = NoTransport /\ Planned /\ pc = "done" /\ ~Refused
    /\ sync_mode = "clone"
    /\ Len(WriteCalls) >= 4
    /\ \E j, k \in 1..Len(WriteCalls) :
          /\ j < k
          /\ WriteCalls[j].op = "delete" /\ WriteCalls[j + 1].op = "delete"
          /\ WriteCalls[k].op = "create" /\ WriteCalls[k + 1].op = "create"

\* a send of several initial chunks that succeeded after the first chunk was
\* bisected and its first half bisected again
C28_Witness ==
    /\ tp # NoTransport /\ pc = "done" /\ result = TRUE
    /\ Len(tp.log) >= 6
    /\ Len(create_data_chunks(tp.values, tp.row_batch_size, chunk_cols(tp))) > 1
    /\ tp.log[1].outcome = "oversized" /\ tp.log[2].outcome = "oversized"
    /\ tp.log[2].depth = 1 /\ tp.log[3].depth = 2 /\ tp.log[4].depth = 2
    /\ tp.log[5].depth = 1 /\ tp.log[5].outcome = "ok"
    /\ tp.log[6].depth = 0

-----------------------------------------------------------------------------
(* Further properties of the reconciliation engine (specification Spec).   *)

\* an Overwrite sync without index column has read no record, planned nothing
\* and sent no record request, and when it is over it has returned failure;
\* its only requests are those of the field check every bitable sync begins
\* with
C29_NothingDone ==
    (sync_mode = "overwrite" /\ index_column = NoColumn) =>
        /\ calls = <<>>
        /\ \A k \in 1..Len(fields.calls) : fields.calls[k].op = "list_fields"
        /\ existing_index = <<>>
        /\ toCreate = <<>> /\ toUpdate = <<>> /\ toDelete = <<>>
        /\ sends = <<>>
        /\ pc \in {"idle", "policy", "done"}
        /\ pc = "done" =>
              /\ result = FALSE
              /\ history = <<[create |-> <<>>, update |-> <<>>, delete |-> <<>>,
                              result |-> FALSE]>>

\* C29: an Overwrite sync with no index column configured fails as a
\* configuration error: it returns failure without reading the remote records
\* and without issuing any record delete or record create, and it never falls
\* back to another policy; the remote records stay as they are.
C29_OverwriteNeedsIndex ==
    /\ []C29_NothingDone
    /\ [][(sync_mode = "overwrite" /\ index_column = NoColumn) =>
              (remote' = remote /\ next_id' = next_id)]_vars

\* the refused sync of local rows against a remote that holds records, after
\* a field check that succeeded
C29_Witness ==
    /\ sync_mode = "overwrite" /\ index_column = NoColumn
    /\ target_type = "bitable"
    /\ fields.calls # <<>> /\ fields.success
    /\ pc = "done" /\ result = FALSE
    /\ Len(df) > 0 /\ Len(remote) > 0

\* the records read that have the index field
Keyed == {k \in 1..Len(RecordsRead) : RecordsRead[k].f # Absent}

\* several of the records read have the same IndexKey
DuplicateKeys ==
    \E j, k \in Keyed : j < k /\ KeyOfRecord(RecordsRead[j]) = KeyOfRecord(RecordsRead[k])

\* C30: when several remote records have the same IndexKey, the RemoteIndex
\* holds for that key the record that appears last in the scanned record
\* sequence; the duplicate is not reported as an error and the index has
\* exactly one entry per distinct key.
C30_LastSeenWins ==
    (Planned /\ Indexed /\ sync_mode # "clone") =>
        /\ DOMAIN existing_index = {KeyOfRecord(RecordsRead[k]) : k \in Keyed}
        /\ \A k \in Keyed :
              (\A j \in Keyed : j > k => KeyOfRecord(RecordsRead[j])
                                            # KeyOfRecord(RecordsRead[k]))
                  => existing_index[KeyOfRecord(RecordsRead[k])] = RecordsRead[k]
        /\ (DuplicateKeys /\ pc = "done" /\ AllCallsOk) => result = TRUE

\* two records with the same key were read: the index holds the second, and
\* the sync went through
C30_Witness ==
    /\ Planned /\ Indexed /\ sync_mode = "full"
    /\ Len(RecordsRead) = 2 /\ DuplicateKeys
    /\ Cardinality(DOMAIN existing_index) = 1
    /\ existing_index[KeyOfRecord(RecordsRead[2])] = RecordsRead[2]
    /\ RecordsRead[1] # RecordsRead[2]
    /\ pc = "done" /\ result = TRUE

-----------------------------------------------------------------------------
(* Properties of the engine: the RemoteIndex during a run, the order and   *)
(* the outcome of the phases.                                              *)

\* the local rows whose IndexKey the RemoteIndex resolves to record r
RowsResolvingTo(r) ==
    {i \in 1..Len(df) : InRemoteIndex(i) /\ existing_index[KeyOfRow(i)].record_id = r}

\* the records the RemoteIndex holds
IndexedRecordIds == {existing_index[k].record_id : k \in DOMAIN existing_index}

\* every indexed record has one update entry (Full) or one entry of the delete
\* list (Overwrite) for each local row that resolves to it
C31_OneEntryPerRow ==
    (Planned /\ Indexed /\ ~Refused) =>
        \A r \in IndexedRecordIds :
            /\ sync_mode = "full" =>
                  Occurrences(Ids(toUpdate), r) = Cardinality(RowsResolvingTo(r))
            /\ sync_mode = "overwrite" =>
                  Occurrences(toDelete, r) = Cardinality(RowsResolvingTo(r))

\* C31: the RemoteIndex is not modified while the plan is dispatched, whatever
\* is written to the remote, and each local row is matched on its own: k local
\* rows with the same IndexKey held by the RemoteIndex give k update entries
\* with the same record_id under Full and k entries of that record_id in the
\* delete list under Overwrite.
C31_IndexReadOnly ==
    /\ []C31_OneEntryPerRow
    /\ [][pc = "dispatch" => existing_index' = existing_index]_vars

\* two local rows resolved to one record, both updated, after a write changed
\* the remote
C31_Witness ==
    /\ Planned /\ Indexed /\ sync_mode = "full"
    /\ \E r \in IndexedRecordIds :
          /\ Cardinality(RowsResolvingTo(r)) >= 2
          /\ Occurrences(Ids(toUpdate), r) >= 2
    /\ \E k \in 1..Len(calls) : calls[k].op = "update" /\ calls[k].ok

\* the same under Overwrite: one record twice in the delete list
C31_WitnessOverwrite ==
    /\ Planned /\ Indexed /\ sync_mode = "overwrite"
    /\ \E r \in IndexedRecordIds : Occurrences(toDelete, r) >= 2
    /\ pc = "done"

-----------------------------------------------------------------------------
(* Further properties of the sheet transport (specification SpecTransport). *)

\* a chunked upload is in progress or over
Uploading == tp # NoTransport /\ tp.kind = "upload"

\* the last write of the upload was rejected as oversized and its chunk, of
\* at least two rows, has just been bisected
JustBisected ==
    /\ Uploading /\ pc = "sending"
    /\ tp.log # <<>>
    /\ tp.log[Len(tp.log)].outcome = "oversized"
    /\ Len(tp.log[Len(tp.log)].chunk.data) >= 2

\* the halves are the floor(n/2) first rows and the remaining rows of the
\* parent, over the parent's columns, with adjacent row ranges that cover the
\* parent's row range
HalvesOf(parent, first, second) ==
    LET n == Len(parent.data)
    IN /\ Len(first.data) = n \div 2
       /\ Len(second.data) = n - (n \div 2)
       /\ first.data \o second.data = parent.data
       /\ first.start_col = parent.start_col /\ first.end_col = parent.end_col
       /\ second.start_col = parent.start_col /\ second.end_col = parent.end_col
       /\ first.start_row = parent.start_row
       /\ first.end_row = first.start_row + Len(first.data) - 1
       /\ second.start_row = first.end_row + 1
       /\ second.end_row = second.start_row + Len(second.data) - 1
       /\ second.end_row = parent.end_row

\* the successful writes whose range holds cell (r, c), with the cell's value
\* at that place of the payload
WritesOfCell(r, c) ==
    {k \in 1..Len(tp.log) :
        LET w == tp.log[k]
        IN /\ w.outcome = "ok"
           /\ w.chunk.start_row <= r /\ r <= w.chunk.end_row
           /\ w.chunk.start_col <= c /\ c <= w.chunk.end_col}

WrittenInPlace(k, r, c) ==
    LET ch == tp.log[k].chunk
    IN ch.data[r - ch.start_row + 1][c - ch.start_col + 1] = tp.values[r][c]

\* C32: bisecting a chunk of n >= 2 rows yields a first half of floor(n/2)
\* rows and a second half of the remaining rows, with the parent's column
\* range and adjacent, disjoint row ranges that together are the parent's row
\* range; hence when the auto-split upload returns success every row of the
\* value matrix was contained in exactly one successful write, at its
\* original target row.
C32_BisectionCovers ==
    /\ JustBisected =>
          /\ Len(tp.stack) >= 2
          /\ HalvesOf(tp.log[Len(tp.log)].chunk, tp.stack[1].chunk, tp.stack[2].chunk)
    /\ (Uploading /\ pc = "done" /\ result = TRUE) =>
          \A r \in 1..Len(tp.values) :
              \A c \in 1..Len(tp.values[r]) :
                  /\ Cardinality(WritesOfCell(r, c)) = 1
                  /\ \A k \in WritesOfCell(r, c) : WrittenInPlace(k, r, c)

\* a successful upload of a 3-row chunk that was bisected into 1 and 2 rows,
\* the second half bisected again
C32_Witness ==
    /\ Uploading /\ pc = "done" /\ result = TRUE
    /\ Len(tp.log) = 5
    /\ Len(tp.log[1].chunk.data) = 3 /\ tp.log[1].outcome = "oversized"
    /\ Len(tp.log[2].chunk.data) = 1 /\ tp.log[2].outcome = "ok"
    /\ Len(tp.log[3].chunk.data) = 2 /\ tp.log[3].outcome = "oversized"
    /\ tp.log[5].chunk.start_row = tp.log[1].chunk.end_row

-----------------------------------------------------------------------------
(* Properties of the upload over the legacy client (specification          *)
(* SpecUpload).                                                            *)

UploadOverClient == tp # NoTransport /\ net.fn = "batch_update_ranges"

\* the answer to request j is a response whose body carries the oversized
\* code, whatever its HTTP status
OversizedAnswer(j) ==
    LET q == net.requests[j]
    IN /\ q.answer.kind = "response"
       /\ q.answer.json /\ q.answer.code = ERROR_CODE_REQUEST_TOO_LARGE

\* chunk is one of the halves of parent, or a part of one
WithinHalves(chunk, parent) ==
    LET mid == parent.start_row + (Len(parent.data) \div 2)
    IN /\ chunk.start_col = parent.start_col /\ chunk.end_col = parent.end_col
       /\ \/ parent.start_row <= chunk.start_row /\ chunk.end_row < mid
          \/ mid <= chunk.start_row /\ chunk.end_row <= parent.end_row

\* C33: an oversized-payload rejection is never handled by the generic retry
\* loop: a request answered with the oversized code is not sent again, no
\* later request carries the payload of its chunk, and every later request
\* for rows of the chunk carries one of its two halves or a part of one.
C33_OversizedNeverRetried ==
    UploadOverClient =>
        \A j \in 1..Len(net.requests) :
            OversizedAnswer(j) =>
                LET parent == net.requests[j].chunk
                IN \A i \in (j + 1)..Len(net.requests) :
                       /\ net.requests[i].chunk # parent
                       /\ \/ WithinHalves(net.requests[i].chunk, parent)
                          \/ net.requests[i].chunk.start_row > parent.end_row

-----------------------------------------------------------------------------
(* Further properties of the API client (specification SpecClient).        *)

\* the calls that are one _call_api_with_biz_retry: the function itself, or
\* a batch function with its single request
OneBizRetry ==
    /\ net.fn \in BatchFunctions \cup {"call_api_with_biz_retry"}
    /\ net.pc # "api"

\* the body of the response parses and carries a code of RETRYABLE_BIZ_CODES
CarriesRetryableCode(response) ==
    response.json /\ response.code \in {1254290, 1254607, 1254002, 1254001, 1254006}

\* C34: _call_api_with_biz_retry repeats a call only while the response body
\* carries a business code of RETRYABLE_BIZ_CODES, sleeping 2^attempt seconds
\* before retry number attempt + 1; it makes at most max_retries + 1 = 4
\* call_api invocations and then returns the last response to the caller,
\* and a batch function returns False for a non-zero code; an unparsable
\* body is returned at once and not retried.
C34_BizRetry ==
    OneBizRetry =>
        /\ net.api_calls <= BIZ_MAX_RETRIES + 1
        /\ net.api_calls <= 4
        /\ Len(net.returns) <= net.api_calls
        /\ \A k \in 1..Len(net.returns) :
              LET r == net.returns[k]
                  retried == r.slept >= 0
              IN /\ r.attempt = k - 1
                 /\ retried <=> (CarriesRetryableCode(r.response) /\ k <= 3)
                 /\ retried =>
                       /\ r.slept = 2 ^ (k - 1)
                       \* the next call_api follows, or is about to
                       /\ \/ net.api_calls > k
                          \/ net.api_calls = k /\ net.pc = "biz" /\ k = Len(net.returns)
                 /\ ~retried => /\ k = Len(net.returns)
                                /\ net.api_calls = k
                                /\ net.response = r.response
                                /\ net.pc \in {"returned", "api_return"}
        /\ (net.fn \in BatchFunctions /\ net.pc = "returned" /\ net.returns # <<>>) =>
              (net.ret <=> (net.response.json /\ net.response.code = 0))

\* a batch create whose four requests were all answered with a retryable
\* code: three retries after 1, 2 and 4 seconds, then False
C34_Witness ==
    /\ net.fn = "batch_create_records" /\ net.pc = "returned"
    /\ net.api_calls = 4
    /\ Len(net.returns) = 4
    /\ \A k \in 1..4 : CarriesRetryableCode(net.returns[k].response)
    /\ net.returns[3].slept = 4
    /\ net.ret = FALSE

\* an unparsable body at the first attempt, handed back at once
C34_WitnessUnparsable ==
    /\ net.fn = "call_api_with_biz_retry" /\ net.pc = "returned"
    /\ net.api_calls = 1
    /\ ~net.response.json

-----------------------------------------------------------------------------
(* Properties of the legacy client with its rate limiter (specification    *)
(* SpecControl).                                                           *)

LegacyClient == net.fn = "call_api_legacy"

\* the call the limiter recorded last before request k was made: that of the
\* request before it, 0 (the initial last_call) before the first
RecordedBefore(k) == IF k = 1 THEN 0 ELSE net.requests[k - 1].recorded

\* C35: every HTTP request of the legacy client, a first attempt or a retry,
\* is immediately preceded by a rate_limiter.wait() on the one limiter of the
\* client, so no request is sent less than the configured delay after the
\* previous recorded call.
C35_EveryRequestWaits ==
    LegacyClient =>
        \A k \in 1..Len(net.requests) :
            LET q == net.requests[k]
            IN /\ q.waited
               /\ q.last_call = RecordedBefore(k)
               /\ q.recorded = q.sent
               /\ q.sent - RecordedBefore(k) >= net.delay

\* a retry that came sooner after the backoff than the delay allows and was
\* held back by the limiter
C35_Witness ==
    /\ LegacyClient
    /\ Len(net.requests) >= 2
    /\ net.delay = 3
    /\ net.requests[2].attempt = 1
    /\ net.requests[2].sent = net.requests[1].recorded + 3
    /\ net.requests[1].answer.status = 429

-----------------------------------------------------------------------------
(* Properties of the dispatch phases of the bitable policies               *)
(* (specification Spec).                                                   *)

\* the batch requests of the run so far that carry the operation
CallsOf(op) == SelectSeq(WriteCalls, LAMBDA c : c.op = op)

\* no request of the operation `later` has been made before one of `earlier`
PhaseBefore(earlier, later) ==
    \A i, j \in 1..Len(WriteCalls) :
        (WriteCalls[i].op = later /\ WriteCalls[j].op = earlier) => j < i

\* C36: a bitable sync dispatches its plan subsets strictly in phases: under
\* Full every update batch is dispatched before any create batch, under
\* Overwrite and Clone every delete batch before any create batch; once a
\* create batch is dispatched every batch of the earlier phase has been, and
\* no call of the earlier phase follows.
C36_Phases ==
    (Planned /\ ~Refused) =>
        /\ sync_mode = "full" =>
              /\ PhaseBefore("update", "create")
              /\ CallsOf("create") # <<>> =>
                    Len(CallsOf("update")) = Len(BatchesOf("update", toUpdate))
        /\ sync_mode \in {"overwrite", "clone"} =>
              /\ PhaseBefore("delete", "create")
              /\ CallsOf("create") # <<>> =>
                    Len(CallsOf("delete")) = Len(BatchesOf("delete", toDelete))

\* a Full sync with two update batches and two create batches, all dispatched
C36_Witness ==
    /\ Planned /\ pc = "done" /\ sync_mode = "full"
    /\ Len(CallsOf("update")) = 2
    /\ Len(CallsOf("create")) >= 2
    /\ WriteCalls[1].op = "update" /\ WriteCalls[3].op = "create"

\* an Overwrite sync with two delete batches before its create batches
C36_WitnessOverwrite ==
    /\ Planned /\ pc = "done" /\ sync_mode = "overwrite"
    /\ Len(CallsOf("delete")) = 2
    /\ Len(CallsOf("create")) = 2

\* an Overwrite or Clone sync is over and one of its delete batches failed
DeleteFailed ==
    /\ Planned /\ ~Refused /\ pc = "done"
    /\ sync_mode \in {"overwrite", "clone"}
    /\ \E k \in 1..Len(CallsOf("delete")) : ~CallsOf("delete")[k].ok

\* C37: in the bitable Overwrite and Clone syncs the create phase is
\* dispatched in full even when a delete batch failed, and the sync then
\* reports failure; the local rows are created next to the records that
\* were not deleted: the create batches carry every local row once, in
\* order, as a record without a record_id, and the only records a request
\* of the run names are those of its delete batches.
C37_CreateAfterFailedDelete ==
    DeleteFailed =>
        /\ Srcs(toCreate) = Positions(Len(df))
        /\ Len(CallsOf("create")) = Len(BatchesOf("create", toCreate))
        /\ \A k \in 1..Len(CallsOf("create")) :
              /\ CallsOf("create")[k].batch = BatchesOf("create", toCreate)[k].batch
              /\ \A i \in 1..Len(CallsOf("create")[k].batch) :
                    CallsOf("create")[k].batch[i].record_id = 0
        /\ CallsOf("update") = <<>>
        /\ result = FALSE

\* a Clone whose only delete batch failed and whose request for the field
\* types failed after it: the two local rows were sent in a create batch
\* that succeeded
C37_Witness ==
    /\ DeleteFailed /\ sync_mode = "clone"
    /\ Len(df) = 2
    /\ Len(calls[1].batch) = 2
    /\ fields.types = NoTypes /\ fields.missing = 0
    /\ CallsOf("create") # <<>>
    /\ \A k \in 1..Len(CallsOf("create")) : CallsOf("create")[k].ok
    /\ result = FALSE

\* the sends of the run that have returned: every operation of the plan whose
\* process_in_batches call is over
Returned(op) ==
    /\ \/ (op = "create" /\ sync_mode \in {"overwrite", "clone"})
       \/ (op = "create" /\ index_column = NoColumn)
       \/ (op = "create" /\ toCreate # <<>>)
       \/ (op = "update" /\ toUpdate # <<>>)
       \/ (op = "delete" /\ toDelete # <<>>)
    /\ \A k \in 1..Len(sends) : sends[k].op # op

\* C38: process_in_batches attempts every batch of its item list exactly
\* once and in order, whatever the earlier outcomes: a batch whose processor
\* returns False or raises is counted as failed, the exception goes no
\* further, the remaining batches are still dispatched, and the function
\* returns True exactly when every batch succeeded (True for no items).
C38_EveryBatchOnce ==
    (Planned /\ ~Refused) =>
        /\ Len(WriteCalls) <= Len(PlannedBatches)
        /\ \A k \in 1..Len(WriteCalls) :
              /\ WriteCalls[k].op = PlannedBatches[k].op
              /\ WriteCalls[k].batch = PlannedBatches[k].batch
        /\ \A op \in {"create", "update", "delete"} :
              Returned(op) =>
                 /\ Len(CallsOf(op)) =
                       Len(BatchesOf(op, CASE op = "create" -> toCreate
                                           [] op = "update" -> toUpdate
                                           [] op = "delete" -> toDelete))
                 /\ results[op] <=> \A k \in 1..Len(CallsOf(op)) : CallsOf(op)[k].ok
        /\ pc = "done" => Len(WriteCalls) = Len(PlannedBatches)

\* the processor raised on the first of two create batches; the second was
\* dispatched and succeeded, the send returned False; the rows were converted
\* without field types
C38_Witness ==
    /\ Planned /\ pc = "done"
    /\ fields.types = NoTypes
    /\ Len(CallsOf("create")) = 2
    /\ CallsOf("create")[1].outcome = "exception"
    /\ CallsOf("create")[2].ok
    /\ results.create = FALSE

\* process_in_batches with no items: a Clone of an empty local table
C38_WitnessEmpty ==
    /\ Planned /\ pc = "done" /\ sync_mode = "clone"
    /\ df = <<>>
    /\ Returned("create") /\ results.create = TRUE
    /\ CallsOf("create") = <<>>

\* the answer to request i is a page: a parsable body of code 0
GoodPage(i) ==
    /\ Requests[i].answer.kind = "response"
    /\ Requests[i].answer.json
    /\ Requests[i].answer.code = 0

\* C39: list_fields has no guard against a repeated page token: it returns
\* only after a page that reports has_more false, it raises only on an
\* answer that is no page, and after every page with has_more true it
\* requests the page token of that page, used before or empty as it may be;
\* so while the server keeps answering has_more true the call does not end
\* and keeps issuing requests, whereas get_all_records never returns after a
\* repeated token.
C39_ListFieldsNoGuard ==
    /\ net.fn = "list_fields" =>
          /\ net.pc = "returned" =>
                /\ Requests # <<>>
                /\ GoodPage(Len(Requests))
                /\ ~Requests[Len(Requests)].answer.has_more
          /\ net.pc = "raised" =>
                /\ Requests # <<>>
                /\ ~GoodPage(Len(Requests))
          /\ \A i \in 1..Len(Requests) :
                (GoodPage(i) /\ Requests[i].answer.has_more) =>
                    /\ i = Len(Requests) => ~CallOver
                    /\ i < Len(Requests) =>
                          Requests[i + 1].token = Requests[i].answer.page_token
    /\ net.fn = "get_all_records" =>
          ((\E k \in 1..Len(PagesReceived) : RepeatsToken(k)) => net.pc # "returned")

\* list_fields received three pages that all report has_more true with the
\* same page token, and has sent a fourth request with that token
C39_Witness ==
    /\ net.fn = "list_fields"
    /\ Len(Requests) = 4
    /\ \A i \in 1..3 :
          /\ GoodPage(i)
          /\ Requests[i].answer.has_more
          /\ Requests[i].answer.page_token = "t1"
    /\ Requests[3].token = "t1"
    /\ Requests[4].token = "t1"

-----------------------------------------------------------------------------
(* Properties of the chunking of a sheet upload (specification             *)
(* SpecTransport).                                                         *)

\* _create_data_chunks has just returned: tp.chunks is its result
JustChunked ==
    /\ Uploading /\ pc = "sending"
    /\ tp.log = <<>> /\ tp.stack = <<>>
    /\ tp.chunks # <<>>

\* the chunks whose recorded range holds cell (r, c)
ChunksOfCell(r, c) ==
    {k \in 1..Len(tp.chunks) :
        /\ tp.chunks[k].start_row <= r /\ r <= tp.chunks[k].end_row
        /\ tp.chunks[k].start_col <= c /\ c <= tp.chunks[k].end_col}

\* the data of the chunk are the cells of its recorded range
HoldsItsRange(ch) ==
    /\ Len(ch.data) = ch.end_row - ch.start_row + 1
    /\ \A i \in 1..Len(ch.data) :
          ch.data[i] = SubSeq(tp.values[ch.start_row + i - 1], ch.start_col, ch.end_col)

\* C40: for a non-empty rectangular value matrix and positive row and column
\* batch sizes the chunks _create_data_chunks returns partition the matrix:
\* every cell belongs to exactly one chunk, the data of a chunk are the cells
\* of its recorded 1-based row and column range, no chunk is empty, and the
\* chunks are listed column block by column block, in increasing row order
\* within a column block.
C40_ChunksPartition ==
    JustChunked =>
        /\ \A r \in 1..Len(tp.values) :
              \A c \in 1..Len(tp.values[r]) : Cardinality(ChunksOfCell(r, c)) = 1
        /\ \A k \in 1..Len(tp.chunks) :
              /\ HoldsItsRange(tp.chunks[k])
              /\ tp.chunks[k].data # <<>>
              /\ \A i \in 1..Len(tp.chunks[k].data) : tp.chunks[k].data[i] # <<>>
              /\ 1 <= tp.chunks[k].start_row /\ 1 <= tp.chunks[k].start_col
        /\ \A j, k \in 1..Len(tp.chunks) :
              j < k =>
                 \/ tp.chunks[j].end_col < tp.chunks[k].start_col
                 \/ /\ tp.chunks[j].start_col = tp.chunks[k].start_col
                    /\ tp.chunks[j].end_col = tp.chunks[k].end_col
                    /\ tp.chunks[j].end_row < tp.chunks[k].start_row

\* a matrix of 3 rows and 3 columns cut by 2 rows and 2 columns: four chunks,
\* the second holds the last row of the first column block
C40_Witness ==
    /\ JustChunked
    /\ Len(tp.values) = 3 /\ Len(tp.values[1]) = 3
    /\ tp.row_batch_size = 2 /\ tp.col_batch_size = 2
    /\ Len(tp.chunks) = 4
    /\ tp.chunks[2].start_row = 3 /\ tp.chunks[2].start_col = 1
    /\ tp.chunks[3].start_row = 1 /\ tp.chunks[3].start_col = 3

====
